---- MODULE Spec2Model ----
(***************************************************************************)
(* Model of wake_rs: the layered, journaled state store (memory_db.rs),    *)
(* the block / transaction ledger (blocks.rs, txs.rs) and the chain        *)
(* orchestrator (chain.rs, chain_interface.rs).                            *)
(*                                                                         *)
(* Rust vectors are modelled as TLA+ sequences: the Rust element v[i] is   *)
(* the TLA+ element v[i + 1].  Journal indexes, layer numbers and          *)
(* snapshot ids keep their Rust (0-based) values.                          *)
(* Rust HashMaps are functions whose DOMAIN is the set of present keys.    *)
(* Option<T> is a record: None_ or Some(v).                                *)
(***************************************************************************)
EXTENDS Integers, Sequences, FiniteSets, TLC

(***************************************************************************)
(* Bounds of the model.                                                    *)
(***************************************************************************)
MaxJournal == 2
MaxSnapshots == 2
MaxBlocks == 3
MaxTxs == 2
\* live snapshots while the configuration of the chain is being changed
MaxRevSnapshots == 1
\* dumps of the fork cache one writer starts
MaxDumps == 2

(***************************************************************************)
(* Small domains for the inputs.                                           *)
(***************************************************************************)
Addrs == {"a1"}
Slots == {"k1", "k2"}
Codes == {"empty", "c1"}

\* 64-bit unsigned width of last_block_number, scaled to the integer range
\* of the model checker; the wrap-around of (last_block_number - 256) still
\* lands far above every block number the model can reach.
U64Modulus == 1048576
BlockHashWindow == 256

None_ == [some |-> FALSE]
Some(v) == [some |-> TRUE, val |-> v]

EmptyMap == << >>
HasKey(m, k) == k \in DOMAIN m
Get(m, k) == IF k \in DOMAIN m THEN Some(m[k]) ELSE None_
Insert(m, k, v) == [x \in (DOMAIN m) \cup {k} |-> IF x = k THEN v ELSE m[x]]
Remove(m, k) == IF (DOMAIN m) \ {k} = {} THEN EmptyMap ELSE [x \in (DOMAIN m) \ {k} |-> m[x]]
Truncate(s, n) == IF Len(s) <= n THEN s ELSE SubSeq(s, 1, n)
Last(s) == s[Len(s)]
SetLast(s, v) == [s EXCEPT ![Len(s)] = v]

(***************************************************************************)
(* Bytecode hashing: content addressed, the empty code has KECCAK_EMPTY.   *)
(***************************************************************************)
hash_slow(code) == IF code = "empty" THEN "KECCAK_EMPTY" ELSE "h_c1"

\* revm AccountInfo; code_hash is always hash_slow(code) in this model
AccountInfo(balance, nonce, code) == [balance |-> balance, nonce |-> nonce, code |-> code]
AccountInfoDefault == AccountInfo(0, 0, "empty")

DbAccount(info, account_state, locally_created) ==
    [info |-> info, account_state |-> account_state, locally_created |-> locally_created]
new_not_existing == DbAccount(AccountInfoDefault, "NotExisting", FALSE)
DbAccountFrom(optInfo) ==
    IF optInfo.some THEN DbAccount(optInfo.val, "None", FALSE) ELSE new_not_existing
info(acc) == IF acc.account_state = "NotExisting" THEN None_ ELSE Some(acc.info)

(***************************************************************************)
(* The Backing Source (ExtDB).  EmptyDB knows no account; the fork source  *)
(* holds one remote contract, RemoteAddr, with one non-zero slot, so the   *)
(* same address is absent remotely under EmptyDB and present under ForkDB. *)
(***************************************************************************)
RemoteAddr == "a1"
RemoteInfo == AccountInfo(1, 0, "c1")
ExtBasic(ext, address) ==
    IF ext = "ForkDB" /\ address = RemoteAddr THEN Some(RemoteInfo) ELSE None_
ExtStorage(ext, address, index) ==
    IF ext = "ForkDB" /\ address = RemoteAddr /\ index = "k1" THEN 1 ELSE 0
ExtCodeByHash(ext, code_hash) ==
    IF ext = "ForkDB" /\ code_hash = "h_c1" THEN "c1" ELSE "empty"
\* a non-zero hash that identifies the block number at the Backing Source
ExtBlockHash(ext, number) == [src |-> "ext", n |-> number]
ZeroHash == [src |-> "zero", n |-> 0]
\* no hash at all: the query aborted on an arithmetic overflow
PanicHash == [src |-> "panic", n |-> 0]

(***************************************************************************)
(* CacheDB                                                                 *)
(***************************************************************************)
CacheDB_new(ext, last_block_number) ==
    [accounts |-> <<EmptyMap, EmptyMap>>,
     contracts |-> [h \in {"KECCAK_EMPTY", "ZERO"} |-> "empty"],
     storage |-> <<EmptyMap, EmptyMap>>,
     block_hashes |-> EmptyMap,
     db |-> ext,
     last_block_number |-> last_block_number,
     journal |-> << >>,
     snapshot_journal_indexes |-> << >>]

forked_account_or_new(d, address) == DbAccountFrom(ExtBasic(d.db, address))

\* slice::binary_search(..).unwrap_or_else(|x| x): the index of a match, or
\* the insertion point; with several matches the one the bisection lands on
RECURSIVE BinarySearchLoop(_, _, _, _)
BinarySearchLoop(s, x, base, size) ==
    IF size > 1
    THEN LET half == size \div 2
             mid == base + half
         IN BinarySearchLoop(s, x, IF s[mid + 1] > x THEN base ELSE mid, size - half)
    ELSE IF s[base + 1] = x THEN base
         ELSE IF s[base + 1] < x THEN base + 1 ELSE base
BinarySearch(s, x) == IF Len(s) = 0 THEN 0 ELSE BinarySearchLoop(s, x, 0, Len(s))

\* an inverted entry applied one layer too low
JournalLayer_base(d, journal_index) ==
    BinarySearch(d.snapshot_journal_indexes, journal_index + 1)

\* the layer an inverted AccountChange / StorageChange entry is applied to
JournalLayer(d, journal_index) ==
    BinarySearch(d.snapshot_journal_indexes, journal_index + 1) + 1

\* swap the slots of a StorageChange with the slots of the layer's map
SwapSlots(st, changes) ==
    LET keep == {k \in DOMAIN st : ~(k \in DOMAIN changes)}
        put == {k \in DOMAIN changes : changes[k].some}
    IN [k \in keep \cup put |-> IF k \in put THEN changes[k].val ELSE st[k]]

rollback_journal_entry(d, entry, journal_index) ==
    CASE entry.tag = "ContractChange" ->
            [db |-> [d EXCEPT !.contracts = Remove(d.contracts, entry.code_hash)],
             entry |-> [tag |-> "ContractChange", code_hash |-> entry.code_hash,
                        prev |-> Get(d.contracts, entry.code_hash)]]
      [] entry.tag = "AccountChange" ->
            LET pos == JournalLayer(d, journal_index)
                layer == d.accounts[pos + 1]
                old == Get(layer, entry.address)
                new == IF entry.account.some
                       THEN Insert(layer, entry.address, entry.account.val)
                       ELSE Remove(layer, entry.address)
            IN [db |-> [d EXCEPT !.accounts[pos + 1] = new],
                entry |-> [tag |-> "AccountChange", address |-> entry.address, account |-> old]]
      [] entry.tag = "StorageChange" ->
            LET pos == JournalLayer(d, journal_index)
                layer == d.storage[pos + 1]
                st == IF HasKey(layer, entry.address) THEN layer[entry.address] ELSE EmptyMap
                new_changes == [k \in DOMAIN entry.changes |-> Get(st, k)]
            IN [db |-> [d EXCEPT !.storage[pos + 1] =
                            Insert(layer, entry.address, SwapSlots(st, entry.changes))],
                entry |-> [tag |-> "StorageChange", address |-> entry.address,
                           changes |-> new_changes]]
      [] entry.tag = "StorageReplace" ->
            LET layer == Last(d.storage)
                old == Get(layer, entry.address)
                new == IF entry.storage.some
                       THEN Insert(layer, entry.address, entry.storage.val)
                       ELSE Remove(layer, entry.address)
            IN [db |-> [d EXCEPT !.storage = SetLast(d.storage, new)],
                entry |-> [tag |-> "StorageReplace", address |-> entry.address, storage |-> old]]

\* for i in (journal_index..journal.len()).rev(): pop, invert, collect
RECURSIVE rollback(_, _)
rollback(d, journal_index) ==
    IF Len(d.journal) <= journal_index
    THEN [db |-> d, items |-> << >>]
    ELSE LET i == Len(d.journal) - 1
             entry == d.journal[i + 1]
             popped == [d EXCEPT !.journal = SubSeq(d.journal, 1, i)]
             r == rollback_journal_entry(popped, entry, i)
             rest == rollback(r.db, journal_index)
         IN [db |-> rest.db, items |-> <<r.entry>> \o rest.items]

\* for entry in rollback.into_iter().rev(): invert at journal.len(), push
RECURSIVE restore_rollback(_, _)
restore_rollback(d, items) ==
    IF Len(items) = 0
    THEN d
    ELSE LET entry == Last(items)
             r == rollback_journal_entry(d, entry, Len(d.journal))
             pushed == [r.db EXCEPT !.journal = Append(r.db.journal, r.entry)]
         IN restore_rollback(pushed, SubSeq(items, 1, Len(items) - 1))

snapshot(d) ==
    [db |-> [d EXCEPT !.accounts = Append(d.accounts, EmptyMap),
                      !.storage = Append(d.storage, EmptyMap),
                      !.snapshot_journal_indexes =
                          Append(d.snapshot_journal_indexes, Len(d.journal))],
     id |-> Len(d.accounts) + 1 - 2]

revert_snapshot(d, snapshot_id) ==
    LET journal_index == d.snapshot_journal_indexes[(snapshot_id - 1) + 1]
    IN [db |-> [d EXCEPT !.accounts = Truncate(d.accounts, snapshot_id + 1),
                         !.storage = Truncate(d.storage, snapshot_id + 1),
                         !.journal = Truncate(d.journal, journal_index),
                         !.snapshot_journal_indexes =
                             Truncate(d.snapshot_journal_indexes, snapshot_id - 1)],
        journal_index |-> journal_index]

\* a scan from the bottom: the lowest layer holding address
TopLayerOf_lowest(d, address) ==
    LET holders == {i \in 1..Len(d.accounts) : HasKey(d.accounts[i], address)}
    IN IF holders = {} THEN 0 ELSE CHOOSE i \in holders : \A j \in holders : i <= j

\* for account in self.accounts.iter().rev(): the topmost layer holding address
TopLayerOf(d, address) ==
    LET holders == {i \in 1..Len(d.accounts) : HasKey(d.accounts[i], address)}
    IN IF holders = {} THEN 0 ELSE CHOOSE i \in holders : \A j \in holders : j <= i

\* a write that leaves the record's account_state as it found it
WriteAccount_keeps_state(d, address, field, value) ==
    LET found == TopLayerOf(d, address)
        fetched == forked_account_or_new(d, address)
        latest == IF found = 0 THEN fetched ELSE d.accounts[found][address]
        d0 == IF found = 0
              THEN [d EXCEPT !.accounts[1] = Insert(d.accounts[1], address, fetched)]
              ELSE d
        top == Last(d0.accounts)
        db_account == IF HasKey(top, address) THEN top[address] ELSE latest
        mutated == CASE field = "balance" -> [db_account EXCEPT !.info.balance = value]
                     [] field = "code" -> [db_account EXCEPT !.info.code = value]
                     [] field = "nonce" -> [db_account EXCEPT !.info.nonce = value]
    IN [d0 EXCEPT !.accounts = SetLast(d0.accounts, Insert(top, address, mutated)),
                  !.journal = Append(d0.journal,
                      [tag |-> "AccountChange", address |-> address,
                       account |-> Some(db_account)])]

\* the common head of set_balance / set_code / set_nonce: find the latest
\* record (fetching it into layer 0 on a miss), copy it into the top layer if
\* the top layer has none, journal the top-layer record, then mutate it
WriteAccount(d, address, field, value) ==
    LET found == TopLayerOf(d, address)
        fetched == forked_account_or_new(d, address)
        latest == IF found = 0 THEN fetched ELSE d.accounts[found][address]
        d0 == IF found = 0
              THEN [d EXCEPT !.accounts[1] = Insert(d.accounts[1], address, fetched)]
              ELSE d
        top == Last(d0.accounts)
        db_account == IF HasKey(top, address) THEN top[address] ELSE latest
        mutated == CASE field = "balance" -> [db_account EXCEPT !.info.balance = value]
                     [] field = "code" -> [db_account EXCEPT !.info.code = value]
                     [] field = "nonce" -> [db_account EXCEPT !.info.nonce = value]
        touched == IF mutated.account_state = "NotExisting"
                   THEN [mutated EXCEPT !.account_state = "Touched"]
                   ELSE mutated
    IN [d0 EXCEPT !.accounts = SetLast(d0.accounts, Insert(top, address, touched)),
                  !.journal = Append(d0.journal,
                      [tag |-> "AccountChange", address |-> address,
                       account |-> Some(db_account)])]

set_balance(d, address, balance) == WriteAccount(d, address, "balance", balance)

set_code(d, address, code) == WriteAccount(d, address, "code", code)

set_nonce(d, address, nonce) == WriteAccount(d, address, "nonce", nonce)

\* set_storage writing the base layer instead of the top layer
set_storage_base_layer(d, address, index, value) ==
    LET base == d.storage[2]
        st == IF HasKey(base, address) THEN base[address] ELSE EmptyMap
        prev_value == Get(st, index)
    IN [d EXCEPT !.storage[2] = Insert(base, address, Insert(st, index, value)),
                 !.journal = Append(d.journal,
                     [tag |-> "StorageChange", address |-> address,
                      changes |-> [k \in {index} |-> prev_value]])]

set_storage(d, address, index, value) ==
    LET top == Last(d.storage)
        st == IF HasKey(top, address) THEN top[address] ELSE EmptyMap
        prev_value == Get(st, index)
    IN [d EXCEPT !.storage = SetLast(d.storage, Insert(top, address, Insert(st, index, value))),
                 !.journal = Append(d.journal,
                     [tag |-> "StorageChange", address |-> address,
                      changes |-> [k \in {index} |-> prev_value]])]

\* contracts.entry(code_hash).or_insert_with(journal ContractChange(hash, None))
insert_contract(d, acc_info) ==
    LET code_hash == hash_slow(acc_info.code)
    IN IF acc_info.code # "empty" /\ ~HasKey(d.contracts, code_hash)
       THEN [d EXCEPT !.contracts = Insert(d.contracts, code_hash, acc_info.code),
                      !.journal = Append(d.journal,
                          [tag |-> "ContractChange", code_hash |-> code_hash, prev |-> None_])]
       ELSE d

(***************************************************************************)
(* DatabaseCommit::commit for the diff of one address.  A diff is          *)
(*   [address, touched, selfdestructed, created, info, storage]            *)
(* where storage maps the written slots to their present_value.            *)
(***************************************************************************)
\* selfdestruct branch that resets the record but leaves it existing
commit_selfdestructed_keeps_account(d, address) ==
    LET top == Last(d.accounts)
        stop == Last(d.storage)
        new_stop == IF HasKey(stop, address) THEN stop ELSE Insert(stop, address, EmptyMap)
    IN [d EXCEPT !.accounts = SetLast(d.accounts,
                     Insert(top, address, DbAccount(AccountInfoDefault, "Touched", FALSE))),
                 !.storage = SetLast(d.storage, new_stop),
                 !.journal = d.journal \o
                     <<[tag |-> "AccountChange", address |-> address,
                        account |-> Get(top, address)],
                       [tag |-> "StorageReplace", address |-> address,
                        storage |-> Get(stop, address)]>>]

\* selfdestruct branch that marks the record in the base layer, not the top
commit_selfdestructed_base_layer(d, address) ==
    LET base == d.accounts[2]
        sbase == d.storage[2]
        new_sbase == IF HasKey(sbase, address) THEN sbase ELSE Insert(sbase, address, EmptyMap)
    IN [d EXCEPT !.accounts[2] = Insert(base, address, new_not_existing),
                 !.storage[2] = new_sbase,
                 !.journal = d.journal \o
                     <<[tag |-> "AccountChange", address |-> address,
                        account |-> Get(base, address)],
                       [tag |-> "StorageReplace", address |-> address,
                        storage |-> Get(sbase, address)]>>]

commit_selfdestructed(d, address) ==
    LET top == Last(d.accounts)
        prev_account == Get(top, address)
        stop == Last(d.storage)
        prev_storage == Get(stop, address)
        \* mem::replace acts on a clone of the occupied map: the layer keeps it
        new_stop == IF HasKey(stop, address) THEN stop ELSE Insert(stop, address, EmptyMap)
    IN [d EXCEPT !.accounts = SetLast(d.accounts, Insert(top, address, new_not_existing)),
                 !.storage = SetLast(d.storage, new_stop),
                 !.journal = d.journal \o
                     <<[tag |-> "AccountChange", address |-> address, account |-> prev_account],
                       [tag |-> "StorageReplace", address |-> address, storage |-> prev_storage]>>]

commit_touched(d, diff) ==
    LET address == diff.address
        d1 == insert_contract(d, diff.info)
        top == Last(d1.accounts)
        prev_account == Get(top, address)
        new_account == IF HasKey(top, address)
                       THEN DbAccount(diff.info, "Touched", top[address].locally_created)
                       ELSE DbAccount(diff.info, "Touched", diff.created)
        stop == Last(d1.storage)
        current_storage == IF HasKey(stop, address) THEN stop[address] ELSE EmptyMap
        prev_storage == [k \in DOMAIN diff.storage |-> Get(current_storage, k)]
        new_storage == [k \in (DOMAIN current_storage) \cup (DOMAIN diff.storage) |->
                           IF k \in DOMAIN diff.storage THEN diff.storage[k]
                           ELSE current_storage[k]]
    IN [d1 EXCEPT !.accounts = SetLast(d1.accounts, Insert(top, address, new_account)),
                  !.storage = SetLast(d1.storage, Insert(stop, address, new_storage)),
                  !.journal = d1.journal \o
                      <<[tag |-> "AccountChange", address |-> address, account |-> prev_account],
                        [tag |-> "StorageChange", address |-> address, changes |-> prev_storage]>>]

commit(d, diff) ==
    IF ~diff.touched THEN d
    ELSE IF diff.selfdestructed THEN commit_selfdestructed(d, diff.address)
    ELSE commit_touched(d, diff)

(***************************************************************************)
(* Database reads.  Each returns the value read and the store after the    *)
(* read (a miss is memoized in layer 0 / the bytecode table).              *)
(***************************************************************************)
basic(d, address) ==
    LET found == TopLayerOf(d, address)
        fetched == forked_account_or_new(d, address)
    IN IF found # 0
       THEN [db |-> d, val |-> info(d.accounts[found][address])]
       ELSE [db |-> [d EXCEPT !.accounts[1] = Insert(d.accounts[1], address, fetched)],
             val |-> info(fetched)]

code_by_hash(d, code_hash) ==
    IF HasKey(d.contracts, code_hash)
    THEN [db |-> d, val |-> d.contracts[code_hash]]
    ELSE LET code == ExtCodeByHash(d.db, code_hash)
         IN [db |-> [d EXCEPT !.contracts = Insert(d.contracts, code_hash, code)], val |-> code]

\* the zip(accounts.rev(), storage.rev()) loop of storage / storage_ref
RECURSIVE StorageScan(_, _, _, _, _)
StorageScan(d, address, index, layer, locally_created) ==
    IF layer = 0
    THEN [found |-> FALSE, locally_created |-> locally_created]
    ELSE LET accs == d.accounts[layer]
             sts == d.storage[layer]
             lc == locally_created \/ (HasKey(accs, address) /\ accs[address].locally_created)
         IN IF HasKey(accs, address) /\ accs[address].account_state = "NotExisting"
            THEN [found |-> TRUE, val |-> 0]
            ELSE IF HasKey(sts, address) /\ HasKey(sts[address], index)
            THEN [found |-> TRUE, val |-> sts[address][index]]
            ELSE StorageScan(d, address, index, layer - 1, lc)

CacheSlot(d, address, index, value) ==
    LET st == IF HasKey(d.storage[1], address) THEN d.storage[1][address] ELSE EmptyMap
    IN [d EXCEPT !.storage[1] = Insert(d.storage[1], address, Insert(st, index, value))]

storage(d, address, index) ==
    LET scan == StorageScan(d, address, index, Len(d.accounts), FALSE)
    IN IF scan.found THEN [db |-> d, val |-> scan.val]
       ELSE IF scan.locally_created THEN [db |-> d, val |-> 0]
       ELSE IF HasKey(d.accounts[1], address)
       THEN LET value == ExtStorage(d.db, address, index)
            IN [db |-> CacheSlot(d, address, index, value), val |-> value]
       ELSE LET ext_info == ExtBasic(d.db, address)
                value == IF ext_info.some THEN ExtStorage(d.db, address, index) ELSE 0
                d1 == [d EXCEPT !.accounts[1] =
                          Insert(d.accounts[1], address, DbAccountFrom(ext_info))]
            IN [db |-> CacheSlot(d1, address, index, value), val |-> value]

\* an address the chain has never loaded
FreshAddr == "a2"
QueryAddrs == Addrs \cup {FreshAddr}

\* self.db.basic_ref(..)? / storage_ref(..)? returning Err
ExtFails(d, ext_ok) == d.db = "ForkDB" /\ ~ext_ok

\* CacheDB::basic reaches self.db.basic_ref
BasicFetches(d, address) == TopLayerOf(d, address) = 0

\* CacheDB::storage reaches self.db.storage_ref / basic_ref
StorageFetches(d, address, index) ==
    LET scan == StorageScan(d, address, index, Len(d.accounts), FALSE)
    IN ~scan.found /\ ~scan.locally_created

\* CacheDB::basic that caches the record before the fetch has answered
try_basic_insert_first(d, address, ext_ok) ==
    IF BasicFetches(d, address) /\ ExtFails(d, ext_ok)
    THEN [db |-> [d EXCEPT !.accounts[1] = Insert(@, address, new_not_existing)],
          err |-> TRUE]
    ELSE [db |-> basic(d, address).db, val |-> basic(d, address).val, err |-> FALSE]

\* CacheDB::basic as a Result: the fetch comes before the insert
try_basic(d, address, ext_ok) ==
    IF BasicFetches(d, address) /\ ExtFails(d, ext_ok)
    THEN [db |-> d, err |-> TRUE]
    ELSE [db |-> basic(d, address).db, val |-> basic(d, address).val, err |-> FALSE]

\* CacheDB::storage as a Result: the fetches come before the inserts
try_storage(d, address, index, ext_ok) ==
    IF StorageFetches(d, address, index) /\ ExtFails(d, ext_ok)
    THEN [db |-> d, err |-> TRUE]
    ELSE [db |-> storage(d, address, index).db,
          val |-> storage(d, address, index).val, err |-> FALSE]

\* CacheDB::code_by_hash as a Result: the entry is inserted with the fetched code
try_code_by_hash(d, code_hash, ext_ok) ==
    IF ~HasKey(d.contracts, code_hash) /\ ExtFails(d, ext_ok)
    THEN [db |-> d, err |-> TRUE]
    ELSE [db |-> code_by_hash(d, code_hash).db,
          val |-> code_by_hash(d, code_hash).val, err |-> FALSE]

\* set_balance / set_code / set_nonce as a Result: forked_account_or_new(..)?
\* comes before the insert into layer 0 and before the journal push
try_WriteAccount(d, address, field, value, ext_ok) ==
    IF BasicFetches(d, address) /\ ExtFails(d, ext_ok)
    THEN [db |-> d, err |-> TRUE]
    ELSE [db |-> WriteAccount(d, address, field, value), err |-> FALSE]

\* wrapping u64 subtraction (release build)
WrappingSub(a, b) == (a - b + U64Modulus) % U64Modulus

\* block_hash / block_hash_ref.  `last_block_number - 256` overflows when
\* last_block_number < 256: a build with overflow checks panics there, a
\* build without them wraps.  `||` short-circuits, so the subtraction is only
\* evaluated when number <= last_block_number.
block_hash(d, number, checks) ==
    IF number > d.last_block_number THEN [db |-> d, val |-> ZeroHash]
    ELSE IF d.last_block_number < BlockHashWindow /\ checks
         THEN [db |-> d, val |-> PanicHash]
    ELSE IF number < WrappingSub(d.last_block_number, BlockHashWindow)
         THEN [db |-> d, val |-> ZeroHash]
    ELSE IF HasKey(d.block_hashes, number)
         THEN [db |-> d, val |-> d.block_hashes[number]]
    ELSE LET hash == ExtBlockHash(d.db, number)
         IN [db |-> [d EXCEPT !.block_hashes = Insert(@, number, hash)], val |-> hash]

(***************************************************************************)
(* What a client can observe of a store: every account read and every      *)
(* storage read.                                                           *)
(***************************************************************************)
ReadAccount(d, address) == basic(d, address).val
ReadStorage(d, address, index) == storage(d, address, index).val
ObsAddr(d, address) ==
    [account |-> ReadAccount(d, address),
     storage |-> [k \in Slots |-> ReadStorage(d, address, k)]]
Obs(d) == [a \in Addrs |-> ObsAddr(d, a)]

(***************************************************************************)
(* Chain orchestrator and ledger.                                          *)
(*                                                                         *)
(* chain is the Chain object: its own fields, the execution engine `evm`   *)
(* (absent until connect; it owns the store `db` and the live block        *)
(* environment `block`), the Blocks ledger and the Txs ledger.             *)
(* Transactions are shared objects (Py<TransactionAbc>): tx_objs maps an   *)
(* object id to the object, txs and pending_txs hold ids.                  *)
(***************************************************************************)
BlockGasLimitDefault == 30000000
GenesisTimestamp == 1000
GasUsedSet == {21000}
RngHashes == {[src |-> "rng", n |-> 1], [src |-> "rng", n |-> 2]}

BlockEnv(number, timestamp, gas_limit) ==
    [number |-> number, timestamp |-> timestamp, gas_limit |-> gas_limit]
BlockEnvDefault == BlockEnv(0, 0, 0)

Block(block_env, rng_hash, journal_index) ==
    [block_env |-> block_env, block_hash |-> rng_hash, journal_index |-> journal_index]

Chain_new ==
    [evm |-> None_,
     connected |-> FALSE,
     forked_block |-> None_,
     automine |-> TRUE,
     block_gas_limit |-> BlockGasLimitDefault,
     latest_block_env |-> None_,
     snapshots |-> << >>,
     pending_txs |-> << >>,
     pending_gas_used |-> 0,
     blocks |-> << >>,
     blocks_start_index |-> 0,
     txs |-> << >>,
     tx_objs |-> EmptyMap,
     default_tx_account |-> None_,
     default_call_account |-> None_,
     default_estimate_account |-> None_,
     default_access_list_account |-> None_,
     labels |-> EmptyMap,
     forked_blocks |-> EmptyMap]

EvmDb(c) == c.evm.val.db
EvmBlock(c) == c.evm.val.block
WithDb(c, d) == [c EXCEPT !.evm.val.db = d]
WithBlock(c, b) == [c EXCEPT !.evm.val.block = b]
last_block_number(c) == EvmDb(c).last_block_number

\* a ledger that records every mined block twice
add_block_twice(c, block_env, journal_index, rng_hash) ==
    [c EXCEPT !.blocks = Append(Append(c.blocks,
                   Block(block_env, rng_hash, Some(journal_index))),
                   Block(block_env, rng_hash, Some(journal_index)))]

\* Blocks::add_block: push; the number must continue the ledger
add_block(c, block_env, journal_index, rng_hash) ==
    [c EXCEPT !.blocks = Append(c.blocks, Block(block_env, rng_hash, Some(journal_index)))]
AddBlockAssertion(c, block_env) ==
    Len(c.blocks) + 1 + c.blocks_start_index = block_env.number + 1

\* a mine that leaves the pending transactions as they are
assign_mined_block_skipped(c, block) == c

\* for tx in self.pending_txs.drain(..): tx.block = Mined(block)
assign_mined_block(c, block) ==
    [c EXCEPT !.tx_objs = [t \in DOMAIN c.tx_objs |->
                              IF \E i \in 1..Len(c.pending_txs) : c.pending_txs[i] = t
                              THEN [c.tx_objs[t] EXCEPT
                                       !.block = [kind |-> "Mined", block |-> block]]
                              ELSE c.tx_objs[t]],
              !.pending_txs = << >>]

\* a mine that leaves the pending gas counter and the live gas limit alone
mine_block_keeps_pending_gas(c, rng_hash) ==
    LET env == EvmBlock(c)
        d1 == [EvmDb(c) EXCEPT !.last_block_number = env.number,
                               !.block_hashes = Insert(@, env.number, rng_hash)]
        block_env == [env EXCEPT !.gas_limit = env.gas_limit + c.pending_gas_used]
        c1 == add_block([WithDb(c, d1) EXCEPT !.latest_block_env = Some(env)],
                        block_env, Len(d1.journal), rng_hash)
        block == Last(c1.blocks)
        c2 == assign_mined_block(c1, block)
    IN [c |-> [c2 EXCEPT
                 !.evm.val.block = BlockEnv(env.number + 1, env.timestamp + 1,
                                            env.gas_limit)],
        block |-> Some(block)]

\* Chain::mine past its guard: record the live block environment as a
\* mined block, hand it to the pending transactions, prepare the next
\* pending block
mine_block(c, rng_hash) ==
    LET env == EvmBlock(c)
        d1 == [EvmDb(c) EXCEPT !.last_block_number = env.number,
                               !.block_hashes = Insert(@, env.number, rng_hash)]
        block_env == [env EXCEPT !.gas_limit = env.gas_limit + c.pending_gas_used]
        c1 == add_block([WithDb(c, d1) EXCEPT !.latest_block_env = Some(env)],
                        block_env, Len(d1.journal), rng_hash)
        block == Last(c1.blocks)
        c2 == assign_mined_block(c1, block)
    IN [c |-> [c2 EXCEPT
                 !.pending_gas_used = 0,
                 !.evm.val.block = BlockEnv(env.number + 1, env.timestamp + 1,
                                            c.block_gas_limit)],
        block |-> Some(block)]

\* a mine that ignores the automine flag
mine_unconditional(c, force, rng_hash) == mine_block(c, rng_hash)

\* Chain::mine
mine(c, force, rng_hash) ==
    IF ~c.automine /\ ~force
    THEN [c |-> c, block |-> None_]
    ELSE mine_block(c, rng_hash)

\* Chain::_connect on a fresh chain (fork = None_) or on a fork of the
\* remote block fork.val; one test account, TestAccount
TestAccount == "a1"
connect(c, fork, rng_hash) ==
    LET d == IF fork.some
             THEN set_code(CacheDB_new("ForkDB", fork.val), TestAccount, "empty")
             ELSE CacheDB_new("EmptyDB", 0)
        env == IF fork.some
               THEN BlockEnv(fork.val + 1, GenesisTimestamp + 1, c.block_gas_limit)
               ELSE BlockEnv(0, GenesisTimestamp, c.block_gas_limit)
        c1 == [c EXCEPT !.connected = TRUE,
                        !.default_call_account = Some(TestAccount),
                        !.default_tx_account = Some(TestAccount),
                        !.default_estimate_account = Some(TestAccount),
                        !.default_access_list_account = Some(TestAccount),
                        !.evm = Some([db |-> d, block |-> env]),
                        \* only the fork branch assigns forked_block
                        !.forked_block = IF fork.some THEN fork ELSE @,
                        !.blocks = << >>,
                        !.forked_blocks = EmptyMap,
                        !.blocks_start_index =
                            IF fork.some THEN fork.val + 1
                            ELSE IF c.forked_block.some THEN c.forked_block.val + 1
                            ELSE 0,
                        !.txs = << >>]
    IN mine(c1, TRUE, rng_hash).c

\* what the VM reads of the store while it executes against `address`
ExecReads(d, address) ==
    LET d1 == basic(d, address).db
        d2 == storage(d1, address, "k1").db
    IN storage(d2, address, "k2").db

\* the output of a read-only execution: everything it can read of `address`
\* and the block environment it ran in
ExecOutput(d, address, block_env) ==
    [account |-> ReadAccount(d, address),
     storage |-> [k \in Slots |-> ReadStorage(d, address, k)],
     number |-> block_env.number]

NewTxId(c) == CHOOSE n \in 0..Cardinality(DOMAIN c.tx_objs) : n \notin DOMAIN c.tx_objs

\* a transact that gives up on a reverted or halted execution before it
\* charges gas, mines and records
transact_drops_failed(c, exec, rng_hash) ==
    LET d1 == commit(ExecReads(EvmDb(c), exec.diff.address), exec.diff)
        m == mine([WithDb(c, d1) EXCEPT
                      !.evm.val.block.gas_limit = @ - exec.gas_used,
                      !.pending_gas_used = @ + exec.gas_used], FALSE, rng_hash)
        id == NewTxId(c)
        tx == [journal_index |-> Len(EvmDb(c).journal),
               block |-> IF m.block.some
                         THEN [kind |-> "Mined", block |-> m.block.val]
                         ELSE [kind |-> "Pending", block_env |-> EvmBlock(m.c)],
               status |-> exec.status,
               gas_used |-> exec.gas_used,
               gas_limit_before |-> EvmBlock(c).gas_limit]
    IN IF exec.status # "Success"
       THEN [c |-> WithDb(c, d1), tx |-> id]
       ELSE [c |-> [m.c EXCEPT !.tx_objs = Insert(@, id, tx),
                               !.pending_txs = IF m.block.some THEN @ ELSE Append(@, id),
                               !.txs = Append(@, id)],
             tx |-> id]

\* Chain::transact for an execution the VM carried out: exec is
\*   [status, gas_used, diff]  (status: Success, Revert or Halt)
transact(c, exec, rng_hash) ==
    LET journal_index == Len(EvmDb(c).journal)
        d1 == commit(ExecReads(EvmDb(c), exec.diff.address), exec.diff)
        gas_limit_before == EvmBlock(c).gas_limit
        c1 == [WithDb(c, d1) EXCEPT
                  !.evm.val.block.gas_limit = gas_limit_before - exec.gas_used,
                  !.pending_gas_used = c.pending_gas_used + exec.gas_used]
        m == mine(c1, FALSE, rng_hash)
        c2 == m.c
        id == NewTxId(c)
        tx == [journal_index |-> journal_index,
               block |-> IF m.block.some
                         THEN [kind |-> "Mined", block |-> m.block.val]
                         ELSE [kind |-> "Pending", block_env |-> EvmBlock(c2)],
               status |-> exec.status,
               gas_used |-> exec.gas_used,
               gas_limit_before |-> gas_limit_before]
    IN [c |-> [c2 EXCEPT !.tx_objs = Insert(c2.tx_objs, id, tx),
                         !.pending_txs = IF m.block.some THEN @ ELSE Append(@, id),
                         !.txs = Append(@, id)],
        tx |-> id]

\* Blocks::get_block for a block the ledger holds locally
\* (selector "latest" or a non-negative number)
HasLocalBlock(c, number) ==
    /\ number <= last_block_number(c)
    /\ number >= c.blocks_start_index
    /\ number - c.blocks_start_index < Len(c.blocks)
get_block(c, number) == c.blocks[number - c.blocks_start_index + 1]

\* Chain::call against the pending block: execute on the live store
call_pending(c, address) ==
    LET d1 == ExecReads(EvmDb(c), address)
    IN [c |-> WithDb(c, d1), ret |-> ExecOutput(EvmDb(c), address, EvmBlock(c))]

\* Chain::call against a mined block: swap in its environment, rollback to
\* its journal index, execute, restore, put the live environment back
call_historical(c, number, address) ==
    LET block == get_block(c, number)
        block_env_backup == EvmBlock(c)
        rb == rollback(EvmDb(c), block.journal_index.val)
        d1 == ExecReads(rb.db, address)
        res == ExecOutput(rb.db, address, block.block_env)
        d2 == restore_rollback(d1, rb.items)
    IN [c |-> WithBlock(WithDb(c, d2), block_env_backup), ret |-> res]

\* Chain::snapshot
chain_snapshot(c) ==
    LET sn == snapshot(EvmDb(c))
    IN [c |-> [WithDb(c, sn.db) EXCEPT !.snapshots = Append(@, EvmBlock(c))],
        id |-> sn.id]

\* a remove_txs that keeps the ledger's transaction list whole
remove_txs_keeps_all(c, journal_index) == c

\* Txs::remove_txs: binary search by journal_index, truncate from the match
remove_txs(c, journal_index) ==
    LET keys == [i \in 1..Len(c.txs) |-> c.tx_objs[c.txs[i]].journal_index]
        left == BinarySearch(keys, journal_index)
        kept == Truncate(c.txs, left)
        live == {kept[i] : i \in 1..Len(kept)} \cup
                {c.pending_txs[i] : i \in 1..Len(c.pending_txs)}
    IN [c EXCEPT !.txs = kept,
                 \* objects no list refers to any more are dropped
                 !.tx_objs = [t \in (DOMAIN c.tx_objs) \cap live |-> c.tx_objs[t]]]

\* Chain::revert
chain_revert(c, snapshot_id) ==
    LET block_env == c.snapshots[snapshot_id]
        last == block_env.number - 1
        rv == revert_snapshot(EvmDb(c), snapshot_id)
        d1 == [rv.db EXCEPT !.last_block_number = last]
        c1 == [WithBlock(WithDb(c, d1), block_env) EXCEPT
                  !.snapshots = Truncate(c.snapshots, snapshot_id - 1),
                  !.blocks = Truncate(c.blocks, last + 1 - c.blocks_start_index)]
        c2 == remove_txs(c1, rv.journal_index)
    IN [c2 EXCEPT !.latest_block_env = Some(get_block(c2, last).block_env)]

\* ChainInterface::set_storage_at: a direct write followed by mine(false)
set_storage_at(c, address, index, value, rng_hash) ==
    mine(WithDb(c, set_storage(EvmDb(c), address, index, value)), FALSE, rng_hash).c

(***************************************************************************)
(* State.                                                                  *)
(*   db         a CacheDB driven directly through its own interface        *)
(*   lastOp     history variable: the last operation, with its arguments   *)
(*              and results where a property needs them                    *)
(*   snapObs    history variable: per live snapshot, what was observable   *)
(*              when snapshot() returned, and the addresses selfdestructed *)
(*              by a commit since                                          *)
(*   destroyed  history variable: the addresses selfdestructed by a commit *)
(*              and not written, committed or reverted since               *)
(***************************************************************************)
VARIABLES db, lastOp, snapObs, destroyed

storeVars == <<db, lastOp, snapObs, destroyed>>

(***************************************************************************)
(* State of the chain-level specifications (they keep the store inside     *)
(* chain.evm and leave db, snapObs and destroyed alone):                   *)
(*   chain            the Chain object                                     *)
(*   seqRun           history: the run of consecutive transact calls that  *)
(*                    is in progress, and whether a forced mine ended it   *)
(*   callMemo         history: the first result of a historical call, per  *)
(*                    block number still in the ledger                     *)
(*   overflow_checks  whether the build traps integer overflow             *)
(***************************************************************************)
VARIABLES chain, seqRun, callMemo, overflow_checks

chainVars == <<chain, seqRun, callMemo, overflow_checks>>

NoRun ==
    [n |-> 0, automine |-> FALSE, blocks0 |-> 0, last0 |-> 0, pending0 |-> 0,
     txs |-> << >>, mined |-> FALSE]

(***************************************************************************)
(* The fork-cache directory and the processes writing to it:               *)
(*   fs       the files that exist, by path                                *)
(*   dumpers  per writer, where it is in dump_forked_state                 *)
(***************************************************************************)
VARIABLES fs, dumpers

(***************************************************************************)
(* The threads of the host that call into one chain:                       *)
(*   threads  the borrow flag of the chain object (None_ when free, the    *)
(*            borrowing thread otherwise) and, per thread, where it is in  *)
(*            its operation and what it holds in local variables           *)
(* Every specification but SpecBorrow runs single-threaded and leaves it   *)
(* alone, together with the cache variables.                               *)
(***************************************************************************)
VARIABLES threads

ThreadIds == {1, 2}
ThreadIdle ==
    [pc |-> "idle", kind |-> "none", evm |-> [some |-> FALSE], items |-> << >>,
     journal_index |-> 0, block_env |-> [number |-> 0, timestamp |-> 0, gas_limit |-> 0],
     address |-> "a1"]
NoThreads == [borrow |-> [some |-> FALSE], of |-> [t \in ThreadIds |-> ThreadIdle]]

cacheVars == <<fs, dumpers, threads>>
CacheIdle ==
    /\ fs = << >>
    /\ dumpers = << >>
    /\ threads = NoThreads

vars == <<storeVars, chainVars, cacheVars>>

Balances == {1}
Nonces == {1}
Vals == {0, 1}
SlotDiffs == {[k \in Slots |-> IF k = "k1" THEN 0 ELSE 1]}
Diffs ==
    [address : Addrs, touched : {FALSE}, selfdestructed : {FALSE}, created : {FALSE},
     info : {AccountInfoDefault}, storage : {EmptyMap}]
    \cup
    [address : Addrs, touched : {TRUE}, selfdestructed : {TRUE}, created : {FALSE},
     info : {AccountInfoDefault}, storage : {EmptyMap}]
    \cup
    [address : Addrs, touched : {TRUE}, selfdestructed : {FALSE}, created : BOOLEAN,
     info : {AccountInfo(1, 1, "c1")}, storage : SlotDiffs]

Op(name) == [op |-> name]
\* any operation no claim needs the details of
NoOp == Op("other")

StoreInit ==
    /\ db \in {CacheDB_new(ext, 0) : ext \in {"EmptyDB", "ForkDB"}}
    /\ lastOp = NoOp
    /\ snapObs = << >>
    /\ destroyed = {}
    /\ chain = Chain_new
    /\ seqRun = NoRun
    /\ callMemo = EmptyMap
    /\ overflow_checks = FALSE
    /\ CacheIdle

CanWrite == Len(db.journal) < MaxJournal

StoreSetBalance ==
    \E a \in Addrs, v \in Balances :
        /\ CanWrite
        /\ db' = set_balance(db, a, v)
        /\ lastOp' = NoOp
        /\ destroyed' = destroyed \ {a}
        /\ UNCHANGED snapObs
        /\ UNCHANGED <<chainVars, cacheVars>>

StoreSetNonce ==
    \E a \in Addrs, v \in Nonces :
        /\ CanWrite
        /\ db' = set_nonce(db, a, v)
        /\ lastOp' = NoOp
        /\ destroyed' = destroyed \ {a}
        /\ UNCHANGED snapObs
        /\ UNCHANGED <<chainVars, cacheVars>>

StoreSetCode ==
    \E a \in Addrs, c \in {"c1"} :
        /\ CanWrite
        /\ db' = set_code(db, a, c)
        /\ lastOp' = NoOp
        /\ destroyed' = destroyed \ {a}
        /\ UNCHANGED snapObs
        /\ UNCHANGED <<chainVars, cacheVars>>

StoreSetStorage ==
    \E a \in Addrs, k \in {"k1"}, v \in Vals :
        /\ CanWrite
        /\ db' = set_storage(db, a, k, v)
        /\ lastOp' = NoOp
        /\ destroyed' = destroyed \ {a}
        /\ UNCHANGED snapObs
        /\ UNCHANGED <<chainVars, cacheVars>>

StoreCommit ==
    \E diff \in Diffs :
        LET sd == diff.touched /\ diff.selfdestructed
        IN /\ CanWrite
           /\ db' = commit(db, diff)
           /\ lastOp' = [op |-> "commit", address |-> diff.address, selfdestructed |-> sd,
                         existed |-> ReadAccount(db, diff.address).some,
                         had_slot |-> \E k \in Slots : ReadStorage(db, diff.address, k) # 0,
                         top_had |-> HasKey(Last(db.accounts), diff.address)]
           /\ destroyed' = IF sd THEN destroyed \cup {diff.address}
                           ELSE IF diff.touched THEN destroyed \ {diff.address}
                           ELSE destroyed
           /\ snapObs' = IF sd
                         THEN [i \in DOMAIN snapObs |->
                                  [snapObs[i] EXCEPT !.sd = @ \cup {diff.address}]]
                         ELSE snapObs
           /\ UNCHANGED <<chainVars, cacheVars>>

StoreSnapshot ==
    /\ Len(db.snapshot_journal_indexes) < MaxSnapshots
    /\ db' = snapshot(db).db
    /\ lastOp' = NoOp
    /\ snapObs' = Append(snapObs, [obs |-> Obs(db), sd |-> {}])
    /\ UNCHANGED destroyed
    /\ UNCHANGED <<chainVars, cacheVars>>

StoreRevert ==
    \E id \in 1..Len(db.snapshot_journal_indexes) :
        /\ db' = revert_snapshot(db, id).db
        /\ lastOp' = [op |-> "revert", expect |-> snapObs[id].obs, sd |-> snapObs[id].sd,
                      changed |-> Obs(db) # snapObs[id].obs]
        /\ snapObs' = Truncate(snapObs, id - 1)
        /\ destroyed' = {}
        /\ UNCHANGED <<chainVars, cacheVars>>

StoreBasic ==
    \E a \in Addrs :
        /\ db' = basic(db, a).db
        /\ lastOp' = NoOp
        /\ UNCHANGED <<snapObs, destroyed>>
        /\ UNCHANGED <<chainVars, cacheVars>>

StoreStorage ==
    \E a \in Addrs, k \in {"k1"} :
        /\ db' = storage(db, a, k).db
        /\ lastOp' = NoOp
        /\ UNCHANGED <<snapObs, destroyed>>
        /\ UNCHANGED <<chainVars, cacheVars>>

StoreCodeByHash ==
    \E h \in {"h_c1"} :
        /\ db' = code_by_hash(db, h).db
        /\ lastOp' = NoOp
        /\ UNCHANGED <<snapObs, destroyed>>
        /\ UNCHANGED <<chainVars, cacheVars>>

\* the rollback / restore pair every historical query is bracketed by
RollbackRestore(d, j) == restore_rollback(rollback(d, j).db, rollback(d, j).items)

StoreRollbackRestore ==
    \E j \in 0..Len(db.journal) :
        /\ db' = RollbackRestore(db, j)
        /\ lastOp' = NoOp
        /\ UNCHANGED <<snapObs, destroyed>>
        /\ UNCHANGED <<chainVars, cacheVars>>

\* the six operations that fetch, while the Backing Source fails
ReadOps == {"basic", "storage", "code_by_hash"}
FetchOps == ReadOps \cup {"set_balance", "set_nonce", "set_code"}
FailingFetch(name, address) ==
    CASE name = "basic" -> try_basic(db, address, FALSE)
      [] name = "storage" -> try_storage(db, address, "k2", FALSE)
      [] name = "code_by_hash" -> try_code_by_hash(db, hash_slow("c1"), FALSE)
      [] name = "set_balance" -> try_WriteAccount(db, address, "balance", 1, FALSE)
      [] name = "set_nonce" -> try_WriteAccount(db, address, "nonce", 1, FALSE)
      [] name = "set_code" -> try_WriteAccount(db, address, "code", "c1", FALSE)

StoreFetchFails ==
    \E name \in FetchOps, a \in QueryAddrs :
        LET r == FailingFetch(name, a)
        IN /\ r.err
           /\ db' = r.db
           /\ lastOp' = [op |-> "fetch_failed", write |-> (name \notin ReadOps),
                         err |-> r.err, unchanged |-> (r.db = db)]
           /\ UNCHANGED <<snapObs, destroyed>>
           /\ UNCHANGED <<chainVars, cacheVars>>

StoreNext ==
    \/ StoreSetBalance
    \/ StoreSetNonce
    \/ StoreSetCode
    \/ StoreSetStorage
    \/ StoreCommit
    \/ StoreSnapshot
    \/ StoreRevert
    \/ StoreBasic
    \/ StoreStorage
    \/ StoreCodeByHash
    \/ StoreRollbackRestore
    \/ StoreFetchFails

SpecStore == StoreInit /\ [][StoreNext]_storeVars

(***************************************************************************)
(* C1  Snapshot round-trip: after revert_snapshot(id) every account read   *)
(* and every storage read returns what it returned when snapshot()         *)
(* returned id, whatever was written and committed in between.             *)
(***************************************************************************)
C1_SnapshotRoundTrip ==
    lastOp.op = "revert" => Obs(db) = lastOp.expect

\* a revert that had something to undo
C1_Witness ==
    lastOp.op = "revert" /\ lastOp.changed

(***************************************************************************)
(* C2  Rollback is self-inverse: restore(rollback(j)) leaves every account *)
(* read, every storage read, the bytecode table and the journal length as  *)
(* they were, for every j up to the journal length.                        *)
(***************************************************************************)
C2_RollbackSelfInverse ==
    [][StoreRollbackRestore =>
          /\ Obs(db') = Obs(db)
          /\ db'.contracts = db.contracts
          /\ Len(db'.journal) = Len(db.journal)]_storeVars

(***************************************************************************)
(* C7  Selfdestruct clearing: once a commit selfdestructed address A,      *)
(* read_account(A) reports no account and every slot of A reads zero, in   *)
(* the state the commit leaves and in every later state up to the next     *)
(* write, commit or revert.                                                *)
(***************************************************************************)
C7_SelfdestructClears ==
    \A a \in destroyed :
        /\ ~ReadAccount(db, a).some
        /\ \A k \in Slots : ReadStorage(db, a, k) = 0

\* a selfdestruct committed in a layer above the one holding A's record and
\* a non-zero slot of A
C7_Witness ==
    /\ lastOp.op = "commit" /\ lastOp.selfdestructed
    /\ lastOp.existed /\ lastOp.had_slot /\ ~lastOp.top_had

(***************************************************************************)
(* C8  Selfdestruct is undone by revert: reverting to a snapshot taken     *)
(* before a selfdestruct of A was committed restores A's balance, nonce,   *)
(* code and every slot of A.                                               *)
(***************************************************************************)
C8_RevertUndoesSelfdestruct ==
    lastOp.op = "revert" =>
        \A a \in lastOp.sd :
            /\ ReadAccount(db, a) = lastOp.expect[a].account
            /\ \A k \in Slots : ReadStorage(db, a, k) = lastOp.expect[a].storage[k]

\* the reverted-to state had an account with a set slot, destroyed since
C8_Witness ==
    /\ lastOp.op = "revert"
    /\ \E a \in lastOp.sd :
          /\ lastOp.expect[a].account.some
          /\ \E k \in Slots : lastOp.expect[a].storage[k] # 0

(***************************************************************************)
(* The chain driven through its client interface.                          *)
(***************************************************************************)
TxDiffs ==
    {d \in Diffs : d.touched /\ ~d.created /\ (d.selfdestructed \/ d.storage # EmptyMap)}
ChainHashes == {[src |-> "rng", n |-> 1]}
Execs == [status : {"Success"}, gas_used : GasUsedSet, diff : TxDiffs]

\* what a pending call can observe: the live store and the live block
LiveObs(c) == [obs |-> Obs(EvmDb(c)), block |-> EvmBlock(c)]

\* the transactions of the ledger recorded in block b
TxsIn(c, b) ==
    {i \in 1..Len(c.txs) :
        /\ c.tx_objs[c.txs[i]].block.kind = "Mined"
        /\ c.tx_objs[c.txs[i]].block.block = b}

StoreIdle ==
    /\ db = CacheDB_new("EmptyDB", 0)
    /\ snapObs = << >>
    /\ destroyed = {}
    /\ CacheIdle

ChainInit ==
    /\ chain = Chain_new
    /\ lastOp = NoOp
    /\ seqRun = NoRun
    /\ callMemo = EmptyMap
    /\ overflow_checks = FALSE
    /\ StoreIdle

ChainFrame == UNCHANGED <<db, snapObs, destroyed, overflow_checks, cacheVars>>

Connected == chain.evm.some
CanMine == Len(chain.blocks) < MaxBlocks
CanJournal == Len(EvmDb(chain).journal) < MaxJournal
CanTransact == Cardinality(DOMAIN chain.tx_objs) < MaxTxs

ChainConnect ==
    \E h \in ChainHashes :
        /\ ~Connected
        /\ chain' = connect(chain, None_, h)
        /\ lastOp' = NoOp
        /\ seqRun' = NoRun
        /\ callMemo' = EmptyMap
        /\ ChainFrame

ChainSetAutomine ==
    \E b \in BOOLEAN :
        /\ Connected
        /\ b # chain.automine
        /\ chain' = [chain EXCEPT !.automine = b]
        /\ lastOp' = NoOp
        /\ seqRun' = NoRun
        /\ UNCHANGED callMemo
        /\ ChainFrame

ChainTransact ==
    \E exec \in Execs, h \in ChainHashes :
        LET r == transact(chain, exec, h)
        IN /\ Connected
           /\ CanTransact
           /\ chain.automine => CanMine
           /\ chain' = r.c
           /\ lastOp' = NoOp
           /\ seqRun' = IF seqRun.n > 0 /\ ~seqRun.mined
                        THEN [seqRun EXCEPT !.n = @ + 1, !.txs = Append(@, r.tx)]
                        ELSE [n |-> 1, automine |-> chain.automine,
                              blocks0 |-> Len(chain.blocks),
                              last0 |-> last_block_number(chain),
                              pending0 |-> Len(chain.pending_txs),
                              txs |-> <<r.tx>>, mined |-> FALSE]
           /\ UNCHANGED callMemo
           /\ ChainFrame

\* Chain.mine() of the client interface: mine(force = true)
ChainMine ==
    \E h \in ChainHashes :
        /\ Connected
        /\ CanMine
        /\ chain' = mine(chain, TRUE, h).c
        /\ lastOp' = NoOp
        /\ seqRun' = IF seqRun.n > 0 /\ ~seqRun.mined
                     THEN [seqRun EXCEPT !.mined = TRUE]
                     ELSE NoRun
        /\ UNCHANGED callMemo
        /\ ChainFrame

ChainSetStorageAt ==
    \E a \in Addrs, k \in {"k1"}, v \in {1}, h \in ChainHashes :
        /\ Connected
        /\ CanJournal
        /\ chain.automine => CanMine
        /\ chain' = set_storage_at(chain, a, k, v, h)
        /\ lastOp' = Op("set_storage_at")
        /\ seqRun' = NoRun
        /\ UNCHANGED callMemo
        /\ ChainFrame

ChainCallPending ==
    \E a \in Addrs :
        LET r == call_pending(chain, a)
        IN /\ Connected
           /\ chain' = r.c
           /\ lastOp' = [op |-> "call", historical |-> FALSE, ret |-> r.ret]
           /\ seqRun' = NoRun
           /\ UNCHANGED callMemo
           /\ ChainFrame

ChainCallHistorical ==
    \E a \in Addrs, number \in 0..MaxBlocks :
        /\ Connected
        /\ HasLocalBlock(chain, number)
        /\ LET r == call_historical(chain, number, a)
           IN /\ chain' = r.c
              /\ lastOp' = [op |-> "call", historical |-> TRUE, number |-> number,
                            ret |-> r.ret, live_before |-> LiveObs(chain),
                            repeated |-> HasKey(callMemo, number)]
              /\ callMemo' = IF HasKey(callMemo, number) THEN callMemo
                             ELSE Insert(callMemo, number, r.ret)
        /\ seqRun' = NoRun
        /\ ChainFrame

ChainSnapshot ==
    /\ Connected
    /\ Len(chain.snapshots) < MaxSnapshots
    /\ chain' = chain_snapshot(chain).c
    /\ lastOp' = NoOp
    /\ seqRun' = NoRun
    /\ UNCHANGED callMemo
    /\ ChainFrame

ChainRevert ==
    \E id \in 1..Len(chain.snapshots) :
        /\ Connected
        /\ chain' = chain_revert(chain, id)
        /\ lastOp' = NoOp
        /\ seqRun' = NoRun
        \* the blocks above the reverted-to block leave the ledger
        /\ callMemo' = [n \in {m \in DOMAIN callMemo : m <= chain.snapshots[id].number - 1}
                           |-> callMemo[n]]
        /\ ChainFrame

\* mining and transacting, with automine switched on and off
ChainNext ==
    \/ ChainConnect
    \/ ChainSetAutomine
    \/ ChainTransact
    \/ ChainMine
    \/ ChainSetStorageAt
    \/ ChainSnapshot
    \/ ChainRevert

SpecChain == ChainInit /\ [][ChainNext]_vars

\* pending and historical calls between writes, snapshots and reverts
CallNext ==
    \/ ChainConnect
    \/ ChainTransact
    \/ ChainMine
    \/ ChainSetStorageAt
    \/ ChainCallPending
    \/ ChainCallHistorical
    \/ ChainSnapshot
    \/ ChainRevert

SpecCall == ChainInit /\ [][CallNext]_vars

(***************************************************************************)
(* C3  Historical call purity: a call against a mined block leaves what a  *)
(* pending call observes (the live store and the live block environment)   *)
(* as it was, and returns what the first call against that block returned. *)
(***************************************************************************)
C3_HistoricalCallPurity ==
    (lastOp.op = "call" /\ lastOp.historical) =>
        /\ LiveObs(chain) = lastOp.live_before
        /\ lastOp.ret = callMemo[lastOp.number]

(***************************************************************************)
(* C4  Automine on: after N sequential transact calls made with            *)
(* automine = true the ledger has exactly N more blocks, each of them      *)
(* holds exactly one transaction, last_block_number has grown by N and no  *)
(* transaction is pending.                                                 *)
(***************************************************************************)
RunBlocks == {seqRun.blocks0 + i : i \in 1..seqRun.n}
C4_AutomineOnCardinality ==
    (seqRun.n > 0 /\ seqRun.automine /\ ~seqRun.mined) =>
        /\ Len(chain.blocks) = seqRun.blocks0 + seqRun.n
        /\ last_block_number(chain) = seqRun.last0 + seqRun.n
        /\ \A b \in RunBlocks : Cardinality(TxsIn(chain, chain.blocks[b])) = 1
        /\ chain.pending_txs = << >>

(***************************************************************************)
(* C4 (amended)  The same, for a run of transact calls that starts with no *)
(* transaction pending.                                                    *)
(***************************************************************************)
C4_AutomineOnNoPending ==
    (seqRun.n > 0 /\ seqRun.automine /\ ~seqRun.mined /\ seqRun.pending0 = 0) =>
        /\ Len(chain.blocks) = seqRun.blocks0 + seqRun.n
        /\ last_block_number(chain) = seqRun.last0 + seqRun.n
        /\ \A b \in RunBlocks : Cardinality(TxsIn(chain, chain.blocks[b])) = 1
        /\ chain.pending_txs = << >>

\* two sequential transact calls under automine, nothing pending before
C4_Witness ==
    seqRun.n >= 2 /\ seqRun.automine /\ ~seqRun.mined /\ seqRun.pending0 = 0

(***************************************************************************)
(* C5  Automine off: after N sequential transact calls made with           *)
(* automine = false no block has been mined and the N transactions are     *)
(* pending; a mine(force = true) that follows mines exactly one block,     *)
(* every one of the N transactions is reassigned to it and nothing is      *)
(* pending.                                                                *)
(***************************************************************************)
RunTxs == {seqRun.txs[i] : i \in 1..Len(seqRun.txs)}
PendingTxs == {chain.pending_txs[i] : i \in 1..Len(chain.pending_txs)}
C5_AutomineOffCardinality ==
    (seqRun.n > 0 /\ ~seqRun.automine) =>
        IF ~seqRun.mined
        THEN /\ Len(chain.blocks) = seqRun.blocks0
             /\ last_block_number(chain) = seqRun.last0
             /\ Len(seqRun.txs) = seqRun.n
             /\ Len(chain.pending_txs) = seqRun.pending0 + seqRun.n
             /\ \A t \in RunTxs :
                   t \in PendingTxs /\ chain.tx_objs[t].block.kind = "Pending"
        ELSE /\ Len(chain.blocks) = seqRun.blocks0 + 1
             /\ last_block_number(chain) = seqRun.last0 + 1
             /\ chain.pending_txs = << >>
             /\ \A t \in RunTxs :
                   chain.tx_objs[t].block =
                       [kind |-> "Mined", block |-> Last(chain.blocks)]

\* two transactions left pending, then mined by a forced mine
C5_Witness ==
    seqRun.n >= 2 /\ ~seqRun.automine /\ seqRun.mined

(***************************************************************************)
(* C6  Idle mine: with automine = false, mine(force = false) returns no    *)
(* block and changes nothing: not last_block_number, not the ledger, not   *)
(* the pending transactions, not the live block environment.               *)
(***************************************************************************)
C6_IdleMineIsNoOp ==
    (Connected /\ ~chain.automine) =>
        \A h \in RngHashes :
            /\ mine(chain, FALSE, h).block = None_
            /\ mine(chain, FALSE, h).c = chain

\* set_storage_at has just run its mine(false) with automine off, on a
\* chain that holds a pending transaction
C6_Witness ==
    /\ lastOp.op = "set_storage_at"
    /\ Connected /\ ~chain.automine
    /\ chain.pending_txs # << >>

(***************************************************************************)
(* Block hashes: chains connected fresh or as a fork of a remote block     *)
(* just below the window size, mined on, snapshotted and reverted, and     *)
(* queried with block_hash at the edges of the window.  The build either   *)
(* traps the overflow of `last_block_number - 256` or wraps it.            *)
(***************************************************************************)
ForkBlocks == {BlockHashWindow - 2}
Forks == {None_} \cup {Some(f) : f \in ForkBlocks}

Max(a, b) == IF a >= b THEN a ELSE b
QueryNumbers(last) ==
    {n \in {0, 1, last - BlockHashWindow - 1, last - BlockHashWindow,
            last - BlockHashWindow + 1, last - 1, last, last + 1} : n >= 0}

\* the hash block `number` got: from the rng when it was mined locally, from
\* the fork source when it is a forked block
AssignedHash(c, number) ==
    IF HasLocalBlock(c, number) THEN get_block(c, number).block_hash
    ELSE ExtBlockHash(EvmDb(c).db, number)

HashInit ==
    /\ chain \in {connect(Chain_new, fork, h) : fork \in Forks, h \in RngHashes}
    /\ overflow_checks \in BOOLEAN
    /\ lastOp = NoOp
    /\ seqRun = NoRun
    /\ callMemo = EmptyMap
    /\ StoreIdle

HashFrame == UNCHANGED <<db, snapObs, destroyed, overflow_checks, seqRun, callMemo, cacheVars>>

HashMine ==
    \E h \in RngHashes :
        /\ CanMine
        /\ chain' = mine(chain, TRUE, h).c
        /\ lastOp' = NoOp
        /\ HashFrame

HashSnapshot ==
    /\ Len(chain.snapshots) < MaxSnapshots
    /\ chain' = chain_snapshot(chain).c
    /\ lastOp' = NoOp
    /\ HashFrame

HashRevert ==
    \E id \in 1..Len(chain.snapshots) :
        /\ chain' = chain_revert(chain, id)
        /\ lastOp' = NoOp
        /\ HashFrame

HashQuery ==
    \E number \in QueryNumbers(last_block_number(chain)) :
        LET r == block_hash(EvmDb(chain), number, overflow_checks)
        IN /\ chain' = WithDb(chain, r.db)
           /\ lastOp' = [op |-> "block_hash", number |-> number, val |-> r.val,
                         again |-> block_hash(r.db, number, overflow_checks).val]
           /\ HashFrame

HashNext ==
    \/ HashMine
    \/ HashSnapshot
    \/ HashRevert
    \/ HashQuery

SpecHash == HashInit /\ [][HashNext]_vars

(***************************************************************************)
(* C9  Block-hash window, outside: block_hash(n) is zero for every n above *)
(* last_block_number and for every n below last_block_number - 255.        *)
(***************************************************************************)
C9_BlockHashZeroOutside ==
    (/\ lastOp.op = "block_hash"
     /\ \/ lastOp.number > last_block_number(chain)
        \/ lastOp.number < last_block_number(chain) - (BlockHashWindow - 1)) =>
        lastOp.val = ZeroHash

(***************************************************************************)
(* C10  Block-hash window, inside: for every last_block_number, also below *)
(* 256, and every n with max(0, last_block_number - 255) <= n <=           *)
(* last_block_number, block_hash(n) is a non-zero hash, it is the hash     *)
(* block n was given when it was mined (the fork source's hash for a       *)
(* forked block), and a repeated query returns it again.                   *)
(***************************************************************************)
C10_BlockHashInside ==
    (/\ lastOp.op = "block_hash"
     /\ Max(0, last_block_number(chain) - (BlockHashWindow - 1)) <= lastOp.number
     /\ lastOp.number <= last_block_number(chain)) =>
        /\ lastOp.val # ZeroHash
        /\ lastOp.val # PanicHash
        /\ lastOp.val = AssignedHash(chain, lastOp.number)
        /\ lastOp.again = lastOp.val

(***************************************************************************)
(* Connection state: connect, disconnect and what every other operation    *)
(* does with a chain whose `connected` flag is off.  The operators below   *)
(* are the whole methods, the branch without a VM included; `err` is       *)
(* "none", the error the method returns, or "panic".                       *)
(***************************************************************************)
NotConnected == "NotConnected"
Ok(c) == [c |-> c, err |-> "none"]
Err(c, e) == [c |-> c, err |-> e]

\* Chain::_disconnect: the flag goes off; the VM, the ledger and the
\* snapshots stay where they are
disconnect(c) == [c EXCEPT !.connected = FALSE]

\* Chain::mine
Chain_mine(c, force, rng_hash) ==
    IF ~c.automine /\ ~force THEN Ok(c)
    ELSE IF ~c.evm.some THEN Err(c, NotConnected)
    ELSE Ok(mine(c, force, rng_hash).c)

\* Chain::mine_py without a callback: the result of mine(true) is dropped
mine_py(c, rng_hash) == Ok(Chain_mine(c, TRUE, rng_hash).c)

\* Chain::snapshot
Chain_snapshot(c) ==
    IF ~c.evm.some THEN Err(c, NotConnected) ELSE Ok(chain_snapshot(c).c)

\* Chain::revert: the snapshot list is cut and popped before the VM is asked for
Chain_revert(c, snapshot_id) ==
    LET cut == Truncate(c.snapshots, snapshot_id)
    IN IF cut = << >> THEN Err([c EXCEPT !.snapshots = cut], "panic")
       ELSE IF ~c.evm.some
       THEN Err([c EXCEPT !.snapshots = Truncate(cut, Len(cut) - 1)], NotConnected)
       ELSE Ok(chain_revert(c, snapshot_id))

\* set_block_gas_limit that hands the whole limit to the live block
set_block_gas_limit_whole(c, gas_limit) ==
    IF gas_limit < c.pending_gas_used THEN Err(c, "ValueError")
    ELSE LET c1 == [c EXCEPT !.block_gas_limit = gas_limit]
         IN IF ~c.evm.some THEN Err(c1, NotConnected)
            ELSE Ok([c1 EXCEPT !.evm.val.block.gas_limit = gas_limit])

\* Chain::set_block_gas_limit: the configured limit is stored before the VM
\* is asked for
set_block_gas_limit(c, gas_limit) ==
    IF gas_limit < c.pending_gas_used THEN Err(c, "ValueError")
    ELSE LET c1 == [c EXCEPT !.block_gas_limit = gas_limit]
         IN IF ~c.evm.some THEN Err(c1, NotConnected)
            ELSE Ok([c1 EXCEPT !.evm.val.block.gas_limit =
                                   gas_limit - c.pending_gas_used])

\* Chain::transact as a Result: the error of a reverted or halted
\* transaction is returned at the very end
Chain_transact(c, exec, rng_hash) ==
    IF ~c.evm.some THEN Err(c, NotConnected)
    ELSE IF exec.status # "Success"
    THEN Err(transact(c, exec, rng_hash).c, "TransactionError")
    ELSE Ok(transact(c, exec, rng_hash).c)

\* Chain::call against the pending block
Chain_call(c, address) ==
    IF ~c.evm.some THEN Err(c, NotConnected) ELSE Ok(call_pending(c, address).c)

\* an operation other than connect and disconnect, and how it ended
Attempt(r) ==
    [op |-> "attempt", connected |-> chain.connected,
     err |-> r.err, unchanged |-> (r.c = chain)]

ConnFrame == UNCHANGED <<db, snapObs, destroyed, overflow_checks, seqRun, callMemo, cacheVars>>

\* the first connect of a chain
ConnConnect ==
    \E h \in ChainHashes :
        /\ ~chain.connected
        /\ ~chain.evm.some
        /\ chain' = connect(chain, None_, h)
        /\ lastOp' = Op("connect")
        /\ ConnFrame

ConnDisconnect ==
    /\ chain.connected
    /\ chain' = disconnect(chain)
    /\ lastOp' = Op("disconnect")
    /\ ConnFrame

ConnMine ==
    \E h \in ChainHashes :
        LET r == mine_py(chain, h)
        IN /\ chain.evm.some => CanMine
           /\ chain' = r.c
           /\ lastOp' = Attempt(r)
           /\ ConnFrame

\* the VM executes a transaction only if its gas fits the live block
FitsBlock(exec) == exec.gas_used <= EvmBlock(chain).gas_limit

ConnTransact ==
    \E exec \in Execs, h \in ChainHashes :
        LET r == Chain_transact(chain, exec, h)
        IN /\ chain.evm.some =>
                  (CanTransact /\ FitsBlock(exec) /\ (chain.automine => CanMine))
           /\ chain' = r.c
           /\ lastOp' = Attempt(r)
           /\ ConnFrame

ConnCall ==
    \E a \in Addrs :
        LET r == Chain_call(chain, a)
        IN /\ chain' = r.c
           /\ lastOp' = Attempt(r)
           /\ ConnFrame

ConnSnapshot ==
    LET r == Chain_snapshot(chain)
    IN /\ Len(chain.snapshots) < MaxSnapshots
       /\ chain' = r.c
       /\ lastOp' = Attempt(r)
       /\ ConnFrame

\* a revert to a snapshot taken of the current VM, or, without a VM, to
\* any id
ConnRevert ==
    \E id \in 1..MaxSnapshots :
        LET r == Chain_revert(chain, id)
        IN /\ chain.evm.some =>
                  /\ id <= Len(chain.snapshots)
                  /\ Len(chain.snapshots) = Len(EvmDb(chain).snapshot_journal_indexes)
           /\ chain' = r.c
           /\ lastOp' = Attempt(r)
           /\ ConnFrame

GasLimits == {0, BlockGasLimitDefault}

ConnSetBlockGasLimit ==
    \E n \in GasLimits :
        LET r == set_block_gas_limit(chain, n)
        IN /\ chain' = r.c
           /\ lastOp' = Attempt(r)
           /\ ConnFrame

ConnNext ==
    \/ ConnConnect
    \/ ConnDisconnect
    \/ ConnMine
    \/ ConnTransact
    \/ ConnCall
    \/ ConnSnapshot
    \/ ConnRevert
    \/ ConnSetBlockGasLimit

SpecConn == ChainInit /\ [][ConnNext]_vars

(***************************************************************************)
(* C11  Connection state machine: the chain is connected after a connect   *)
(* and disconnected after a disconnect, and every other operation          *)
(* attempted while the chain is disconnected, before the first connect or  *)
(* after a disconnect, ends with the not-connected error and leaves the    *)
(* chain as it was.                                                        *)
(***************************************************************************)
C11_DisconnectedFailsFast ==
    /\ lastOp.op = "connect" => chain.connected
    /\ lastOp.op = "disconnect" => ~chain.connected
    /\ (lastOp.op = "attempt" /\ ~lastOp.connected) =>
           (lastOp.err = NotConnected /\ lastOp.unchanged)

(***************************************************************************)
(* Snapshot and revert of the chain with its ledger and its configuration. *)
(* snapObs holds, for every live snapshot, what the chain was when the     *)
(* snapshot was taken.                                                     *)
(***************************************************************************)
\* Chain::set_default_tx_account
set_default_tx_account(c, account) == [c EXCEPT !.default_tx_account = account]

\* Chain::set_labels
set_labels(c, address, label) == [c EXCEPT !.labels = Insert(@, address, label)]

\* the ledger and the configuration of a chain
ChainView(c) ==
    [blocks |-> c.blocks,
     txs |-> c.txs,
     pending_txs |-> c.pending_txs,
     last_block_number |-> last_block_number(c),
     block |-> EvmBlock(c),
     automine |-> c.automine,
     block_gas_limit |-> c.block_gas_limit,
     pending_gas_used |-> c.pending_gas_used,
     default_tx_account |-> c.default_tx_account,
     default_call_account |-> c.default_call_account,
     default_estimate_account |-> c.default_estimate_account,
     default_access_list_account |-> c.default_access_list_account,
     labels |-> c.labels]

RevFrame == UNCHANGED <<db, destroyed, overflow_checks, seqRun, callMemo, cacheVars>>

RevConnect ==
    \E h \in ChainHashes :
        /\ ~Connected
        /\ chain' = connect(chain, None_, h)
        /\ lastOp' = NoOp
        /\ UNCHANGED snapObs
        /\ RevFrame

\* automine is switched off, once
RevSetAutomine ==
    \E b \in {FALSE} :
        /\ Connected
        /\ b # chain.automine
        /\ chain' = [chain EXCEPT !.automine = b]
        /\ lastOp' = NoOp
        /\ UNCHANGED snapObs
        /\ RevFrame

\* the block gas limit is lowered, once, after a snapshot
RevSetBlockGasLimit ==
    \E n \in GasLimits :
        LET r == set_block_gas_limit(chain, n)
        IN /\ Connected
           /\ chain.snapshots # << >>
           /\ r.err = "none"
           /\ n < chain.block_gas_limit
           /\ chain' = r.c
           /\ lastOp' = NoOp
           /\ UNCHANGED snapObs
           /\ RevFrame

\* the default sender is cleared, once, after a snapshot
RevSetDefaultTxAccount ==
    \E account \in {None_} :
        /\ Connected
        /\ chain.snapshots # << >>
        /\ account # chain.default_tx_account
        /\ chain' = set_default_tx_account(chain, account)
        /\ lastOp' = NoOp
        /\ UNCHANGED snapObs
        /\ RevFrame

\* an address is labelled after a snapshot
RevSetLabels ==
    \E a \in Addrs :
        /\ Connected
        /\ chain.snapshots # << >>
        /\ ~HasKey(chain.labels, a)
        /\ chain' = set_labels(chain, a, "label")
        /\ lastOp' = NoOp
        /\ UNCHANGED snapObs
        /\ RevFrame

RevExecs == {e \in Execs : ~e.diff.selfdestructed}

RevTransact ==
    \E exec \in RevExecs, h \in ChainHashes :
        /\ Connected
        /\ CanTransact
        /\ FitsBlock(exec)
        /\ chain.automine => CanMine
        /\ chain' = transact(chain, exec, h).c
        /\ lastOp' = NoOp
        /\ UNCHANGED snapObs
        /\ RevFrame

RevMine ==
    \E h \in ChainHashes :
        /\ Connected
        /\ CanMine
        /\ chain' = mine(chain, TRUE, h).c
        /\ lastOp' = NoOp
        /\ UNCHANGED snapObs
        /\ RevFrame

RevSnapshot ==
    /\ Connected
    /\ Len(chain.snapshots) < MaxRevSnapshots
    /\ chain' = chain_snapshot(chain).c
    /\ snapObs' = Append(snapObs, ChainView(chain))
    /\ lastOp' = NoOp
    /\ RevFrame

RevRevert ==
    \E id \in 1..Len(chain.snapshots) :
        /\ Connected
        /\ chain' = chain_revert(chain, id)
        /\ snapObs' = Truncate(snapObs, id - 1)
        /\ lastOp' = [op |-> "revert", at |-> snapObs[id]]
        /\ RevFrame

RevNext ==
    \/ RevConnect
    \/ RevSetAutomine
    \/ RevSetBlockGasLimit
    \/ RevSetDefaultTxAccount
    \/ RevSetLabels
    \/ RevTransact
    \/ RevMine
    \/ RevSnapshot
    \/ RevRevert

SpecRevert == ChainInit /\ [][RevNext]_vars

(***************************************************************************)
(* C12  Revert prunes the ledger: after revert(id) the block list, the     *)
(* transaction list and the pending-transaction list are the ones of the   *)
(* moment snapshot id was taken, and last_block_number and the live block  *)
(* environment have their values of that moment.                           *)
(***************************************************************************)
C12_RevertPrunesLedger ==
    lastOp.op = "revert" =>
        /\ chain.blocks = lastOp.at.blocks
        /\ chain.txs = lastOp.at.txs
        /\ chain.pending_txs = lastOp.at.pending_txs
        /\ last_block_number(chain) = lastOp.at.last_block_number
        /\ EvmBlock(chain) = lastOp.at.block

(***************************************************************************)
(* C13  Chain-level snapshot round-trip: after revert(id) the automine     *)
(* flag, the configured block gas limit, the pending gas counter, the four *)
(* default accounts, the address labels and the pending-transaction list   *)
(* have the values they had when snapshot id was taken.                    *)
(***************************************************************************)
C13_RevertRestoresConfiguration ==
    lastOp.op = "revert" =>
        /\ chain.automine = lastOp.at.automine
        /\ chain.block_gas_limit = lastOp.at.block_gas_limit
        /\ chain.pending_gas_used = lastOp.at.pending_gas_used
        /\ chain.default_tx_account = lastOp.at.default_tx_account
        /\ chain.default_call_account = lastOp.at.default_call_account
        /\ chain.default_estimate_account = lastOp.at.default_estimate_account
        /\ chain.default_access_list_account = lastOp.at.default_access_list_account
        /\ chain.labels = lastOp.at.labels
        /\ chain.pending_txs = lastOp.at.pending_txs

(***************************************************************************)
(* Historical queries on a forked chain whose Backing Source can fail.     *)
(* ext_ok tells whether the fetches of one operation succeed.              *)
(***************************************************************************)
\* inspect_replay as a Result: the VM stops at the first read that fails
try_ExecReads(d, address, ext_ok) ==
    LET r1 == try_basic(d, address, ext_ok)
        r2 == try_storage(r1.db, address, "k1", ext_ok)
        r3 == try_storage(r2.db, address, "k2", ext_ok)
    IN IF r1.err THEN r1
       ELSE IF r2.err THEN [db |-> r2.db, err |-> TRUE]
       ELSE [db |-> r3.db, err |-> r3.err]

\* Chain::call against a mined block, the error path included: the result is
\* looked at after restore_rollback and after the live environment is back
try_call_historical(c, number, address, ext_ok) ==
    LET block == get_block(c, number)
        block_env_backup == EvmBlock(c)
        rb == rollback(EvmDb(c), block.journal_index.val)
        res == try_ExecReads(rb.db, address, ext_ok)
        d2 == restore_rollback(res.db, rb.items)
    IN [c |-> WithBlock(WithDb(c, d2), block_env_backup), err |-> res.err]

\* ChainInterface::get_storage_at against a mined block: the Result of the
\* read is returned after restore_rollback
try_get_storage_at(c, number, address, index, ext_ok) ==
    LET block == get_block(c, number)
        rb == rollback(EvmDb(c), block.journal_index.val)
        data == try_storage(rb.db, address, index, ext_ok)
    IN [c |-> WithDb(c, restore_rollback(data.db, rb.items)), err |-> data.err]

\* ChainInterface::get_code against a mined block: basic(address)? leaves the
\* closure before restore_rollback
try_get_code(c, number, address, ext_ok) ==
    LET block == get_block(c, number)
        rb == rollback(EvmDb(c), block.journal_index.val)
        code == try_basic(rb.db, address, ext_ok)
    IN IF code.err
       THEN [c |-> WithDb(c, code.db), err |-> TRUE]
       ELSE [c |-> WithDb(c, restore_rollback(code.db, rb.items)), err |-> FALSE]

\* the selectors of a block: an integer, or a tag
IntSel(n) == [kind |-> "Int", n |-> n]
TagSel(tag) == [kind |-> tag, n |-> 0]

\* the block the fork source has under `number`
ProviderBlock(c, number) ==
    Block(BlockEnv(number, GenesisTimestamp - (c.forked_block.val - number),
                   BlockGasLimitDefault),
          ExtBlockHash("ForkDB", number), None_)

\* Blocks::get_block, the number a selector stands for:
\* last_block_number + 1 + block_number as u64 overflows u64 whenever the
\* sum is a valid block number
SelectorNumber(last, selector, checks) ==
    IF selector.kind = "Int"
    THEN IF selector.n < 0
         THEN LET sum == last + 1 + (selector.n + U64Modulus)
              IN IF sum >= U64Modulus /\ checks
                 THEN [err |-> "panic", number |-> 0]
                 ELSE [err |-> "none", number |-> sum % U64Modulus]
         ELSE IF selector.n > last
         THEN [err |-> "Block number out of range", number |-> 0]
         ELSE [err |-> "none", number |-> selector.n]
    ELSE IF selector.kind \in {"Latest", "Safe", "Finalized"}
    THEN [err |-> "none", number |-> last]
    ELSE [err |-> "none", number |-> 0]

\* Blocks::get_block, the lookup in the local list
LocalBlock(c, number) ==
    IF number < c.blocks_start_index \/ number - c.blocks_start_index >= Len(c.blocks)
    THEN [c |-> c, err |-> "Block already pruned"]
    ELSE [c |-> c, err |-> "none", block |-> c.blocks[number - c.blocks_start_index + 1]]

\* Blocks::get_block, a block at or below the fork point: memoized, or
\* fetched from the provider and memoized
ForkedBlock(c, number, ext_ok) ==
    IF HasKey(c.forked_blocks, number)
    THEN [c |-> c, err |-> "none", block |-> c.forked_blocks[number]]
    ELSE IF ~ext_ok THEN [c |-> c, err |-> "provider error"]
    ELSE [c |-> [c EXCEPT !.forked_blocks = Insert(@, number, ProviderBlock(c, number))],
          err |-> "none", block |-> ProviderBlock(c, number)]

\* Blocks::get_block for the selectors other than pending
Blocks_get_block(c, selector, ext_ok, checks) ==
    LET sel == SelectorNumber(last_block_number(c), selector, checks)
    IN IF sel.err # "none" THEN [c |-> c, err |-> sel.err]
       ELSE IF c.forked_block.some /\ sel.number <= c.forked_block.val
       THEN ForkedBlock(c, sel.number, ext_ok)
       ELSE LocalBlock(c, sel.number)

NotYetImplemented == "not yet implemented"

\* todo!() reached with the chain borrowed and the VM not taken out
todo_evm_taken(c) == [c |-> [c EXCEPT !.evm = None_], err |-> NotYetImplemented]
todo(c) == [c |-> c, err |-> NotYetImplemented]

\* the result of a call: the chain, the error raised, whether data came
\* back, and whether the selected block had no journal index
CallResult(c, err, data, unresolved) ==
    [c |-> c, err |-> err, data |-> data, unresolved |-> unresolved]
CallHistoricalResult(r) ==
    CallResult(r.c, IF r.err THEN "RuntimeError" ELSE "none", ~r.err, FALSE)
CallTodoResult(r) == CallResult(r.c, r.err, FALSE, TRUE)

\* Chain::call for an integer or latest selector, once get_block returned gb
Chain_call_block(gb, address, ext_ok) ==
    IF gb.err # "none" THEN CallResult(gb.c, gb.err, FALSE, FALSE)
    ELSE IF ~gb.block.journal_index.some
    THEN CallTodoResult(todo(gb.c))
    ELSE CallHistoricalResult(
             try_call_historical(gb.c, gb.block.block_env.number, address, ext_ok))

\* Chain::call for an integer or latest selector
Chain_call_at(c, selector, address, ext_ok, checks) ==
    Chain_call_block(Blocks_get_block(c, selector, ext_ok, checks), address, ext_ok)

QueryInit ==
    /\ chain \in {connect(Chain_new, fork, h) : fork \in Forks, h \in ChainHashes}
    /\ overflow_checks = FALSE
    /\ lastOp = NoOp
    /\ seqRun = NoRun
    /\ callMemo = EmptyMap
    /\ StoreIdle

LocalBlocks == {n \in chain.blocks_start_index..last_block_number(chain) :
                   HasLocalBlock(chain, n)}

\* a historical query, what it was given and what the store was before it
Query(name, ext_ok, r) ==
    [op |-> "query", name |-> name, ext_ok |-> ext_ok, err |-> r.err,
     journal_before |-> Len(EvmDb(chain).journal),
     block_before |-> EvmBlock(chain)]

QueryTransact ==
    \E exec \in Execs, h \in ChainHashes :
        /\ CanTransact
        /\ CanMine
        /\ chain' = transact(chain, exec, h).c
        /\ lastOp' = NoOp
        /\ HashFrame

QuerySetStorageAt ==
    \E a \in Addrs, k \in {"k1"}, v \in {1}, h \in ChainHashes :
        /\ CanJournal
        /\ CanMine
        /\ chain' = set_storage_at(chain, a, k, v, h)
        /\ lastOp' = NoOp
        /\ HashFrame

QueryCall ==
    \E number \in LocalBlocks, a \in QueryAddrs, ext_ok \in BOOLEAN :
        LET r == try_call_historical(chain, number, a, ext_ok)
        IN /\ chain' = r.c
           /\ lastOp' = Query("call", ext_ok, r)
           /\ HashFrame

QueryGetStorageAt ==
    \E number \in LocalBlocks, a \in QueryAddrs, k \in {"k1"}, ext_ok \in BOOLEAN :
        LET r == try_get_storage_at(chain, number, a, k, ext_ok)
        IN /\ chain' = r.c
           /\ lastOp' = Query("get_storage_at", ext_ok, r)
           /\ HashFrame

QueryGetCode ==
    \E number \in LocalBlocks, a \in QueryAddrs, ext_ok \in BOOLEAN :
        LET r == try_get_code(chain, number, a, ext_ok)
        IN /\ chain' = r.c
           /\ lastOp' = Query("get_code", ext_ok, r)
           /\ HashFrame

CallSelectors ==
    {IntSel(n) : n \in {0, last_block_number(chain)} \cup
                       {f \in ForkBlocks : chain.forked_block.some}}
    \cup {TagSel("Latest")}

\* a call by selector; the details are kept when the selected block is one
\* fetched from the fork source
CallAtOp(r, before) ==
    IF r.unresolved
    THEN [op |-> "call_at", err |-> r.err, data |-> r.data, before |-> before]
    ELSE NoOp

QueryCallAt ==
    \E selector \in CallSelectors, a \in Addrs, ext_ok \in BOOLEAN :
        LET r == Chain_call_at(chain, selector, a, ext_ok, overflow_checks)
        IN /\ chain' = r.c
           /\ lastOp' = CallAtOp(r, chain)
           /\ HashFrame

QueryNext ==
    \/ QueryTransact
    \/ QuerySetStorageAt
    \/ QueryCall
    \/ QueryGetStorageAt
    \/ QueryGetCode
    \/ QueryCallAt

SpecQuery == QueryInit /\ [][QueryNext]_vars

(***************************************************************************)
(* C14  A rollback-based historical query (call, get_storage_at, get_code) *)
(* leaves the store and the live block environment as they were on every   *)
(* exit path: when a read of the store fails after the rollback, the       *)
(* rolled-back journal entries are back and the live block environment is  *)
(* the one from before the query.                                          *)
(***************************************************************************)
C14_QueryRestoresOnEveryPath ==
    lastOp.op = "query" =>
        /\ Len(EvmDb(chain).journal) = lastOp.journal_before
        /\ EvmBlock(chain) = lastOp.block_before

(***************************************************************************)
(* C15  Unsupported historical query: a call against a block whose journal *)
(* index is unresolved (a block at or below the fork point, fetched from   *)
(* the Backing Source) ends with the not-yet-implemented error and without *)
(* data; the store with its journal, the block and transaction lists, the  *)
(* pending transactions and the live block environment are what they were, *)
(* and the chain still has its VM for later operations.                    *)
(***************************************************************************)
C15_UnresolvedBlockNotImplemented ==
    lastOp.op = "call_at" =>
        /\ lastOp.err = NotYetImplemented
        /\ ~lastOp.data
        /\ chain.evm = lastOp.before.evm
        /\ chain.evm.some
        /\ chain.blocks = lastOp.before.blocks
        /\ chain.txs = lastOp.before.txs
        /\ chain.tx_objs = lastOp.before.tx_objs
        /\ chain.pending_txs = lastOp.before.pending_txs
        /\ chain.pending_gas_used = lastOp.before.pending_gas_used
        /\ chain.latest_block_env = lastOp.before.latest_block_env

\* a call against the fork block, made after a transaction was mined locally
C15_Witness ==
    /\ lastOp.op = "call_at"
    /\ Len(EvmDb(chain).journal) > 1
    /\ Len(chain.blocks) > 1
    /\ HasKey(chain.forked_blocks, chain.forked_block.val)

(***************************************************************************)
(* C16  Backing Source failure atomicity: when the fetch of basic,         *)
(* storage, code_by_hash, set_balance, set_nonce or set_code fails, the    *)
(* operation returns the error and the store is what it was: no layer,     *)
(* layer 0 included, and no table gains or loses an entry, and the journal *)
(* gets no entry.                                                          *)
(***************************************************************************)
C16_FetchFailureLeavesStore ==
    lastOp.op = "fetch_failed" => (lastOp.err /\ lastOp.unchanged)

\* a failed fetch on a store that has layers, cached records and a journal
C16_Witness ==
    /\ lastOp.op = "fetch_failed"
    /\ lastOp.write
    /\ Len(db.journal) > 0
    /\ Len(db.accounts) > 2
    /\ db.accounts[1] # EmptyMap

(***************************************************************************)
(* Transactions of every outcome, mining and the block gas limit.          *)
(***************************************************************************)
TxStatuses == {"Success", "Revert", "Halt"}
TxExecs == [status : TxStatuses, gas_used : GasUsedSet,
            diff : {d \in TxDiffs : ~d.selfdestructed}]
TxGasLimits == {0, 21000, BlockGasLimitDefault}

TxSetAutomine ==
    \E b \in BOOLEAN :
        /\ Connected
        /\ b # chain.automine
        /\ chain' = [chain EXCEPT !.automine = b]
        /\ lastOp' = NoOp
        /\ HashFrame

TxConnect ==
    \E h \in ChainHashes :
        /\ ~Connected
        /\ chain' = connect(chain, None_, h)
        /\ lastOp' = NoOp
        /\ HashFrame

TxTransact ==
    \E exec \in TxExecs, h \in ChainHashes :
        LET r == Chain_transact(chain, exec, h)
        IN /\ Connected
           /\ CanTransact
           /\ FitsBlock(exec)
           /\ chain.automine => CanMine
           /\ chain' = r.c
           /\ lastOp' = [op |-> "transact", exec |-> exec, err |-> r.err,
                         before |-> chain,
                         success |-> Chain_transact(chain,
                                         [exec EXCEPT !.status = "Success"], h).c]
           /\ HashFrame

TxMine ==
    \E h \in ChainHashes :
        /\ Connected
        /\ CanMine
        /\ chain' = mine(chain, TRUE, h).c
        /\ lastOp' = [op |-> "mine", before |-> chain]
        /\ HashFrame

TxSetBlockGasLimit ==
    \E n \in TxGasLimits :
        LET r == set_block_gas_limit(chain, n)
        IN /\ Connected
           /\ chain' = r.c
           /\ lastOp' = [op |-> "set_block_gas_limit", n |-> n, err |-> r.err,
                         before |-> chain]
           /\ HashFrame

TxNext ==
    \/ TxConnect
    \/ TxSetAutomine
    \/ TxTransact
    \/ TxMine
    \/ TxSetBlockGasLimit

SpecTx == ChainInit /\ [][TxNext]_vars

(***************************************************************************)
(* C17  set_block_gas_limit(n): when n is below the gas the pending block  *)
(* has consumed, the call is rejected and the configured limit and the     *)
(* live remaining capacity stay; otherwise the configured limit is n and   *)
(* the live remaining capacity is n minus the gas the pending block has    *)
(* consumed.                                                               *)
(***************************************************************************)
C17_SetBlockGasLimit ==
    lastOp.op = "set_block_gas_limit" =>
        IF lastOp.n < lastOp.before.pending_gas_used
        THEN /\ lastOp.err = "ValueError"
             /\ chain.block_gas_limit = lastOp.before.block_gas_limit
             /\ EvmBlock(chain).gas_limit = EvmBlock(lastOp.before).gas_limit
        ELSE /\ lastOp.err = "none"
             /\ chain.block_gas_limit = lastOp.n
             /\ EvmBlock(chain).gas_limit = lastOp.n - lastOp.before.pending_gas_used
             /\ chain.pending_gas_used = lastOp.before.pending_gas_used

\* a limit accepted while the pending block has consumed gas
C17_Witness ==
    /\ lastOp.op = "set_block_gas_limit"
    /\ lastOp.err = "none"
    /\ lastOp.before.pending_gas_used > 0
    /\ lastOp.n # lastOp.before.block_gas_limit

(***************************************************************************)
(* C18  A transact whose execution reverts or halts returns an error and   *)
(* keeps the transaction: the state diff is committed, exactly one record  *)
(* is appended to the transaction list, the gas is charged to the pending  *)
(* block, and the transaction is mined (automine) or put on the pending    *)
(* list (manual), as for a successful transaction.                         *)
(***************************************************************************)
C18_FailedTransactionRetained ==
    (lastOp.op = "transact" /\ lastOp.exec.status # "Success") =>
        LET before == lastOp.before
            exec == lastOp.exec
            tx == Last(chain.txs)
        IN /\ lastOp.err = "TransactionError"
           /\ Len(chain.txs) = Len(before.txs) + 1
           /\ SubSeq(chain.txs, 1, Len(before.txs)) = before.txs
           /\ tx \notin DOMAIN before.tx_objs
           /\ chain.tx_objs[tx].status = exec.status
           /\ chain.tx_objs[tx].gas_used = exec.gas_used
           /\ \A k \in DOMAIN exec.diff.storage :
                  ReadStorage(EvmDb(chain), exec.diff.address, k) = exec.diff.storage[k]
           /\ Len(EvmDb(chain).journal) > Len(EvmDb(before).journal)
           /\ IF before.automine
              THEN /\ chain.tx_objs[tx].block.kind = "Mined"
                   /\ chain.tx_objs[tx].block.block = Last(chain.blocks)
                   /\ Len(chain.blocks) = Len(before.blocks) + 1
                   /\ chain.pending_txs = << >>
                   /\ chain.pending_gas_used = 0
              ELSE /\ chain.tx_objs[tx].block.kind = "Pending"
                   /\ chain.pending_txs = Append(before.pending_txs, tx)
                   /\ chain.blocks = before.blocks
                   /\ chain.pending_gas_used = before.pending_gas_used + exec.gas_used
                   /\ EvmBlock(chain).gas_limit = EvmBlock(before).gas_limit - exec.gas_used
           /\ [chain EXCEPT !.tx_objs[tx].status = "Success"] = lastOp.success

\* a halted transaction left pending behind an earlier one
C18_Witness ==
    /\ lastOp.op = "transact"
    /\ lastOp.exec.status = "Halt"
    /\ ~lastOp.before.automine
    /\ Len(chain.pending_txs) = 2

(***************************************************************************)
(* C19  A mine that is not skipped turns the live block environment into   *)
(* a new mined block numbered previous last_block_number + 1, reassigns    *)
(* every pending transaction to that block, empties the pending list,      *)
(* zeroes the pending gas counter and advances the live environment:       *)
(* number + 1, timestamp + 1, gas_limit = the configured block gas limit.  *)
(*                                                                         *)
(* As stated, with the mined block carrying the live environment as it is  *)
(* at that instant:                                                        *)
(***************************************************************************)
C19_MineRecordsLiveEnvironment ==
    lastOp.op = "mine" =>
        LET before == lastOp.before
            block == Last(chain.blocks)
        IN /\ Len(chain.blocks) = Len(before.blocks) + 1
           /\ block.block_env = EvmBlock(before)
           /\ block.block_env.number = last_block_number(before) + 1

(***************************************************************************)
(* C19, amended: the mined block carries the live environment's number and *)
(* timestamp, and as gas limit the live gas limit plus the pending gas     *)
(* counter (the live gas limit is what the pending transactions have left  *)
(* of the block).  The rest as stated, for the forced mine and for the     *)
(* mine at the end of a transact under automine.                           *)
(***************************************************************************)
C19_MineEffect ==
    /\ lastOp.op = "mine" =>
        LET before == lastOp.before
            live == EvmBlock(before)
            block == Last(chain.blocks)
        IN /\ Len(chain.blocks) = Len(before.blocks) + 1
           /\ SubSeq(chain.blocks, 1, Len(before.blocks)) = before.blocks
           /\ block.block_env = [live EXCEPT
                                    !.gas_limit = @ + before.pending_gas_used]
           /\ block.block_env.number = last_block_number(before) + 1
           /\ last_block_number(chain) = last_block_number(before) + 1
           /\ \A i \in 1..Len(before.pending_txs) :
                  chain.tx_objs[before.pending_txs[i]].block =
                      [kind |-> "Mined", block |-> block]
           /\ \A t \in DOMAIN before.tx_objs :
                  (\A i \in 1..Len(before.pending_txs) : before.pending_txs[i] # t)
                      => chain.tx_objs[t] = before.tx_objs[t]
           /\ chain.pending_txs = << >>
           /\ chain.pending_gas_used = 0
           /\ EvmBlock(chain) = BlockEnv(live.number + 1, live.timestamp + 1,
                                         before.block_gas_limit)
    /\ (lastOp.op = "transact" /\ lastOp.before.automine) =>
        LET before == lastOp.before
            live == EvmBlock(before)
            block == Last(chain.blocks)
        IN /\ Len(chain.blocks) = Len(before.blocks) + 1
           /\ block.block_env = [live EXCEPT
                                    !.gas_limit = @ + before.pending_gas_used]
           /\ block.block_env.number = last_block_number(before) + 1
           /\ \A i \in 1..Len(before.pending_txs) :
                  chain.tx_objs[before.pending_txs[i]].block =
                      [kind |-> "Mined", block |-> block]
           /\ chain.tx_objs[Last(chain.txs)].block = [kind |-> "Mined", block |-> block]
           /\ chain.pending_txs = << >>
           /\ chain.pending_gas_used = 0
           /\ EvmBlock(chain) = BlockEnv(live.number + 1, live.timestamp + 1,
                                         before.block_gas_limit)

\* a forced mine of two pending transactions on a chain that has mined
\* blocks since its genesis block
C19_Witness ==
    /\ lastOp.op = "mine"
    /\ Len(lastOp.before.pending_txs) = 2
    /\ lastOp.before.pending_gas_used > 0
    /\ Len(lastOp.before.blocks) > 1

(***************************************************************************)
(* The block ledger as the client indexes it: chain.blocks[selector].      *)
(***************************************************************************)
PyInt(v) == [py |-> "int", n |-> v, s |-> ""]
PyStr(v) == [py |-> "str", n |-> 0, s |-> v]

\* FromPyObject for BlockEnum.  The enum declares Int(u64), so a negative
\* Python int fails the integer extraction and then the string extraction;
\* Chain::revert builds Int from an i64, the reading in which a negative
\* int is carried through (int_signed).
BlockEnum_extract_bound(ob, int_signed) ==
    IF ob.py = "int"
    THEN IF ob.n >= 0 \/ int_signed
         THEN [err |-> "none", selector |-> IntSel(ob.n)]
         ELSE [err |-> "TypeError", selector |-> IntSel(0)]
    ELSE IF ob.s = "latest" THEN [err |-> "none", selector |-> TagSel("Latest")]
    ELSE IF ob.s = "pending" THEN [err |-> "none", selector |-> TagSel("Pending")]
    ELSE IF ob.s = "earliest" THEN [err |-> "none", selector |-> TagSel("Earliest")]
    ELSE IF ob.s = "safe" THEN [err |-> "none", selector |-> TagSel("Safe")]
    ELSE IF ob.s = "finalized" THEN [err |-> "none", selector |-> TagSel("Finalized")]
    ELSE [err |-> "Invalid block value", selector |-> IntSel(0)]

\* Blocks::__getitem__ for the selectors other than pending
Blocks_getitem(c, ob, ext_ok, checks, int_signed) ==
    LET x == BlockEnum_extract_bound(ob, int_signed)
    IN IF x.err # "none" THEN [c |-> c, err |-> x.err]
       ELSE Blocks_get_block(c, x.selector, ext_ok, checks)

GetItemArgs(last) ==
    {PyInt(v) : v \in {-2, -1, 0, last - 1, last, last + 1, last + 2}}
        \cup {PyStr(v) : v \in {"latest", "earliest", "safe", "finalized", "newest"}}

BlocksGetItem ==
    \E ob \in GetItemArgs(last_block_number(chain)), ext_ok \in BOOLEAN,
       int_signed \in BOOLEAN :
        LET r == Blocks_getitem(chain, ob, ext_ok, overflow_checks, int_signed)
        IN /\ chain' = r.c
           /\ lastOp' = [op |-> "get_block", ob |-> ob, ext_ok |-> ext_ok,
                         int_signed |-> int_signed,
                         last |-> last_block_number(chain),
                         err |-> r.err,
                         number |-> IF r.err = "none" THEN r.block.block_env.number
                                    ELSE 0]
           /\ HashFrame

BlocksNext ==
    \/ HashMine
    \/ HashSnapshot
    \/ HashRevert
    \/ BlocksGetItem

SpecBlocks == HashInit /\ [][BlocksNext]_vars

(***************************************************************************)
(* C20  get_block by integer selector: a non-negative index above          *)
(* last_block_number fails with a range error; a negative index n resolves *)
(* to block last_block_number + 1 + n; a block number pruned by a revert   *)
(* fails until it is mined again; latest, safe and finalized resolve to    *)
(* block last_block_number and earliest to block 0.                        *)
(***************************************************************************)
C20_GetBlockBySelector ==
    lastOp.op = "get_block" =>
        LET ob == lastOp.ob
            last == lastOp.last
        IN /\ (ob.py = "int" /\ ob.n > last) =>
                  lastOp.err \in {"Block number out of range", "Block already pruned"}
           /\ (ob.py = "int" /\ ob.n < 0 /\ last + 1 + ob.n >= 0 /\ lastOp.ext_ok) =>
                  (lastOp.err = "none" /\ lastOp.number = last + 1 + ob.n)
           /\ (ob.py = "int" /\ ob.n >= 0 /\ ob.n <= last /\ lastOp.ext_ok) =>
                  (lastOp.err = "none" /\ lastOp.number = ob.n)
           /\ (ob.py = "str" /\ ob.s \in {"latest", "safe", "finalized"}) =>
                  (lastOp.err = "none" /\ lastOp.number = last)
           /\ (ob.py = "str" /\ ob.s = "earliest" /\ lastOp.ext_ok) =>
                  (lastOp.err = "none" /\ lastOp.number = 0)

(***************************************************************************)
(* The transaction ledger as the client indexes it: chain.txs[index].      *)
(***************************************************************************)
\* `x as usize` for an isize x
AsUsize(x) == x % U64Modulus

\* Vec::get for a usize index
VecGet(v, i) == IF i < Len(v) THEN Some(v[i + 1]) ELSE None_

\* an indexing that takes a negative index as it is
Txs_getitem_unshifted(txs, index) ==
    LET got == VecGet(txs, AsUsize(index))
    IN IF got.some THEN [err |-> "none", tx |-> got.val]
       ELSE [err |-> "IndexError", tx |-> 0]

\* Txs::__getitem__
Txs_getitem(txs, index) ==
    LET got == IF index < 0
               THEN VecGet(txs, AsUsize(Len(txs) + index))
               ELSE VecGet(txs, AsUsize(index))
    IN IF got.some THEN [err |-> "none", tx |-> got.val]
       ELSE [err |-> "IndexError", tx |-> 0]

TxIndexes == -(MaxTxs + 1)..(MaxTxs + 1)

TxsGetItem ==
    \E index \in TxIndexes :
        LET r == Txs_getitem(chain.txs, index)
        IN /\ Connected
           /\ UNCHANGED chain
           /\ lastOp' = [op |-> "get_transaction", index |-> index,
                         err |-> r.err, tx |-> r.tx]
           /\ HashFrame

TxsNext ==
    \/ TxConnect
    \/ TxSetAutomine
    \/ TxTransact
    \/ TxMine
    \/ TxsGetItem

SpecTxs == ChainInit /\ [][TxsNext]_vars

(***************************************************************************)
(* C21  get_transaction(index) over a ledger of length L returns the       *)
(* transaction at position index for 0 <= index < L, the transaction at    *)
(* position L + index for -L <= index < 0, and fails with an index error   *)
(* for every other index, the empty ledger included.                       *)
(***************************************************************************)
C21_GetTransaction ==
    lastOp.op = "get_transaction" =>
        LET L == Len(chain.txs)
            index == lastOp.index
        IN /\ (0 <= index /\ index < L) =>
                  (lastOp.err = "none" /\ lastOp.tx = chain.txs[index + 1])
           /\ (-L <= index /\ index < 0) =>
                  (lastOp.err = "none" /\ lastOp.tx = chain.txs[L + index + 1])
           /\ (index >= L \/ index < -L) => lastOp.err = "IndexError"

\* the first of two transactions addressed from the end
C21_Witness ==
    /\ lastOp.op = "get_transaction"
    /\ Len(chain.txs) = 2
    /\ lastOp.index = -2
    /\ lastOp.err = "none"
    /\ lastOp.tx = chain.txs[1]
    /\ chain.txs[1] # chain.txs[2]

(***************************************************************************)
(* The block ledger over the life of a Chain object: connects (fresh or    *)
(* forked), disconnects, mining, transactions, snapshots and reverts.      *)
(* An add_block whose assertion fails panics; nothing is run after it.     *)
(***************************************************************************)
AddBlockOp(asserted, last) == [op |-> "add_block", asserted |-> asserted, last |-> last]
Panicked == lastOp.op = "add_block" /\ ~lastOp.asserted

LedgerConnect ==
    \E fork \in Forks, h \in ChainHashes :
        LET r == connect(chain, fork, h)
        IN /\ ~Panicked
           /\ ~chain.connected
           /\ chain' = r
           /\ lastOp' = AddBlockOp(
                  AddBlockAssertion([r EXCEPT !.blocks = << >>],
                                    Last(r.blocks).block_env), -1)
           /\ HashFrame

LedgerDisconnect ==
    /\ ~Panicked
    /\ chain.connected
    /\ chain' = disconnect(chain)
    /\ lastOp' = NoOp
    /\ HashFrame

LedgerMine ==
    \E h \in ChainHashes :
        /\ ~Panicked
        /\ chain.connected
        /\ CanMine
        /\ chain' = mine(chain, TRUE, h).c
        /\ lastOp' = AddBlockOp(AddBlockAssertion(chain, EvmBlock(chain)),
                                last_block_number(chain))
        /\ HashFrame

LedgerTransact ==
    \E exec \in RevExecs, h \in ChainHashes :
        /\ ~Panicked
        /\ chain.connected
        /\ CanTransact
        /\ CanMine
        /\ FitsBlock(exec)
        /\ chain' = transact(chain, exec, h).c
        /\ lastOp' = IF chain.automine
                     THEN AddBlockOp(AddBlockAssertion(chain, EvmBlock(chain)),
                                     last_block_number(chain))
                     ELSE NoOp
        /\ HashFrame

LedgerSetAutomine ==
    /\ ~Panicked
    /\ chain.connected
    /\ chain.automine
    /\ chain' = [chain EXCEPT !.automine = FALSE]
    /\ lastOp' = NoOp
    /\ HashFrame

LedgerSnapshot ==
    /\ ~Panicked
    /\ chain.connected
    /\ Len(chain.snapshots) < MaxRevSnapshots
    /\ chain' = chain_snapshot(chain).c
    /\ lastOp' = NoOp
    /\ HashFrame

\* a revert to a snapshot taken on the store now in use
LedgerRevert ==
    \E id \in 1..Len(chain.snapshots) :
        /\ ~Panicked
        /\ chain.connected
        /\ Len(chain.snapshots) = Len(EvmDb(chain).snapshot_journal_indexes)
        /\ chain' = chain_revert(chain, id)
        /\ lastOp' = NoOp
        /\ HashFrame

LedgerNext ==
    \/ LedgerConnect
    \/ LedgerDisconnect
    \/ LedgerMine
    \/ LedgerTransact
    \/ LedgerSetAutomine
    \/ LedgerSnapshot
    \/ LedgerRevert

SpecLedger == ChainInit /\ [][LedgerNext]_vars

(***************************************************************************)
(* C22  Block numbers are contiguous: after any sequence of connect, mine, *)
(* transact, snapshot and revert the retained mined blocks have            *)
(* consecutive numbers starting at the first local block number, every     *)
(* block mined after the first has number last_block_number + 1, and the   *)
(* add_block assertion never fails.                                        *)
(***************************************************************************)
C22_BlockNumbersContiguous ==
    /\ lastOp.op = "add_block" => lastOp.asserted
    /\ (lastOp.op = "add_block" /\ lastOp.last >= 0) =>
           Last(chain.blocks).block_env.number = lastOp.last + 1
    /\ Connected =>
           \A i \in 1..Len(chain.blocks) :
               chain.blocks[i].block_env.number = chain.blocks_start_index + i - 1

(***************************************************************************)
(* The fork cache on disk.  A cache file holds the four maps of DiskCache, *)
(* serialized one after the other; a file that is being written holds a    *)
(* prefix of them.                                                         *)
(***************************************************************************)
DiskCacheSections == 4
DiskCache(accounts, contracts, storage_, block_hashes) ==
    [accounts |-> accounts, contracts |-> contracts, storage |-> storage_,
     block_hashes |-> block_hashes]

\* the DiskCache dump_forked_state builds from the store
DiskCacheOf(d) == DiskCache(d.accounts[1], d.contracts, d.storage[1], d.block_hashes)

\* the first n sections of the serialized cache
SerializedPrefix(dc, n) ==
    [sections |-> n,
     payload |-> DiskCache(IF n >= 1 THEN dc.accounts ELSE EmptyMap,
                           IF n >= 2 THEN dc.contracts ELSE EmptyMap,
                           IF n >= 3 THEN dc.storage ELSE EmptyMap,
                           IF n >= 4 THEN dc.block_hashes ELSE EmptyMap)]
Serialized(dc) == SerializedPrefix(dc, DiskCacheSections)
EmptyFile == SerializedPrefix(DiskCache(EmptyMap, EmptyMap, EmptyMap, EmptyMap), 0)

TargetPath == [name |-> "state.db", pid |-> 0, uuid |-> 0]

\* a writer that writes to the target path itself
dump_temp_path_in_place(file_path, pid, uuid) == file_path

\* format!("{}.{}.{}.tmp", file_path, process::id(), Uuid::new_v4())
dump_temp_path(file_path, pid, uuid) ==
    [name |-> file_path.name, pid |-> pid, uuid |-> uuid]

\* File::options().write(true).create_new(true).open(path)
create_new(files, path) ==
    IF HasKey(files, path) THEN [fs |-> files, err |-> TRUE]
    ELSE [fs |-> Insert(files, path, EmptyFile), err |-> FALSE]

\* one more section of dc reaches the file behind the BufWriter
write_section(files, path, dc) ==
    [files EXCEPT ![path] = SerializedPrefix(dc, @.sections + 1)]

\* writer.flush(): everything serialized is in the file
flush(files, path, dc) == [files EXCEPT ![path] = Serialized(dc)]

\* std::fs::rename(from, to): one atomic replacement of `to`
rename(files, from, to) ==
    [x \in ((DOMAIN files) \ {from}) \cup {to} |->
        IF x = to THEN files[from] ELSE files[x]]

\* std::fs::remove_file(path)
remove_file(files, path) == Remove(files, path)

Writers == {1, 2}

\* the caches the writers hold: a store that fetched an account, and one
\* that fetched a slot of it as well
DumpStores ==
    {basic(CacheDB_new("ForkDB", 254), RemoteAddr).db,
     storage(basic(CacheDB_new("ForkDB", 254), RemoteAddr).db, RemoteAddr, "k1").db}
DumpCaches == {DiskCacheOf(d) : d \in DumpStores}
PreviousCache == DiskCacheOf(CacheDB_new("ForkDB", 254))

Dumper(pc, temp, dc, dumps) == [pc |-> pc, temp |-> temp, dc |-> dc, dumps |-> dumps]

DumpInit ==
    /\ fs \in {EmptyMap, Insert(EmptyMap, TargetPath, Serialized(PreviousCache))}
    /\ dumpers = [w \in Writers |-> Dumper("idle", TargetPath, PreviousCache, 0)]
    /\ threads = NoThreads
    /\ chain = Chain_new
    /\ lastOp = NoOp
    /\ seqRun = NoRun
    /\ callMemo = EmptyMap
    /\ overflow_checks = FALSE
    /\ db = CacheDB_new("EmptyDB", 0)
    /\ snapObs = << >>
    /\ destroyed = {}

DumpFrame == UNCHANGED <<db, lastOp, snapObs, destroyed, chainVars, threads>>

\* dump_forked_state up to the open of the temporary file
DumpOpen ==
    \E w \in Writers, dc \in DumpCaches :
        LET path == dump_temp_path(TargetPath, w, dumpers[w].dumps + 1)
            r == create_new(fs, path)
        IN /\ dumpers[w].pc = "idle"
           /\ dumpers[w].dumps < MaxDumps
           /\ fs' = r.fs
           /\ dumpers' = [dumpers EXCEPT ![w] =
                  Dumper(IF r.err THEN "idle" ELSE "writing", path, dc, @.dumps + 1)]
           /\ DumpFrame

\* serialize_into: the BufWriter passes a section on to the file
DumpWrite ==
    \E w \in Writers :
        /\ dumpers[w].pc = "writing"
        /\ fs[dumpers[w].temp].sections < DiskCacheSections
        /\ fs' = write_section(fs, dumpers[w].temp, dumpers[w].dc)
        /\ UNCHANGED dumpers
        /\ DumpFrame

\* serialize_into or flush fails: the error is returned, the temporary
\* file stays
DumpWriteError ==
    \E w \in Writers :
        /\ dumpers[w].pc = "writing"
        /\ dumpers' = [dumpers EXCEPT ![w].pc = "idle"]
        /\ UNCHANGED fs
        /\ DumpFrame

DumpFlush ==
    \E w \in Writers :
        /\ dumpers[w].pc = "writing"
        /\ fs' = flush(fs, dumpers[w].temp, dumpers[w].dc)
        /\ dumpers' = [dumpers EXCEPT ![w].pc = "flushed"]
        /\ DumpFrame

\* the rename, or its failure followed by the removal of the temporary file
DumpRename ==
    \E w \in Writers, ok \in BOOLEAN :
        /\ dumpers[w].pc = "flushed"
        /\ fs' = IF ok THEN rename(fs, dumpers[w].temp, TargetPath)
                 ELSE remove_file(fs, dumpers[w].temp)
        /\ dumpers' = [dumpers EXCEPT ![w].pc = "idle"]
        /\ DumpFrame

\* the writing process dies; what it wrote so far stays
DumpCrash ==
    \E w \in Writers :
        /\ dumpers[w].pc \in {"writing", "flushed"}
        /\ dumpers' = [dumpers EXCEPT ![w].pc = "crashed"]
        /\ UNCHANGED fs
        /\ DumpFrame

DumpNext ==
    \/ DumpOpen
    \/ DumpWrite
    \/ DumpWriteError
    \/ DumpFlush
    \/ DumpRename
    \/ DumpCrash

SpecDump == DumpInit /\ [][DumpNext]_vars

(***************************************************************************)
(* C23  Fork-cache write protocol: with writers dumping concurrently to    *)
(* the same path and a crash possible at any step, the file at the target  *)
(* path is at every instant absent, a previous complete cache or a new     *)
(* complete cache, never a partly written file; every writer that is       *)
(* writing has a temporary file of its own.                                *)
(***************************************************************************)
C23_TargetNeverPartial ==
    /\ HasKey(fs, TargetPath) =>
           \E dc \in DumpCaches \cup {PreviousCache} : fs[TargetPath] = Serialized(dc)
    /\ \A w1 \in Writers, w2 \in Writers :
           (w1 # w2 /\ dumpers[w1].pc = "writing" /\ dumpers[w2].pc = "writing")
               => dumpers[w1].temp # dumpers[w2].temp
    /\ \A w \in Writers : dumpers[w].pc = "writing" => dumpers[w].temp # TargetPath

\* one writer has published a new cache over the previous one while the
\* other died with its temporary file half written
C23_Witness ==
    /\ HasKey(fs, TargetPath)
    /\ fs[TargetPath] # Serialized(PreviousCache)
    /\ \E w \in Writers :
           /\ dumpers[w].pc = "crashed"
           /\ fs[dumpers[w].temp].sections \in 1..(DiskCacheSections - 1)
           /\ fs[dumpers[w].temp] # SerializedPrefix(fs[TargetPath].payload,
                                                     fs[dumpers[w].temp].sections)

(***************************************************************************)
(* Loading the fork cache at connect                                       *)
(***************************************************************************)

\* bincode's with_limit(10_000_000), counted in map entries instead of bytes
DecodeLimit == 6
CacheEntries(dc) ==
    Cardinality(DOMAIN dc.accounts) + Cardinality(DOMAIN dc.contracts)
        + Cardinality(DOMAIN dc.storage) + Cardinality(DOMAIN dc.block_hashes)

\* deserialize_from(reader): every section must be there, within the limit
deserialize_from(file) ==
    IF file.sections < DiskCacheSections THEN None_
    ELSE IF CacheEntries(file.payload) > DecodeLimit THEN None_
    ELSE Some(file.payload)

\* a load that assigns each section as soon as it is decoded
load_forked_state_streaming(d, files, path, readable) ==
    IF ~readable THEN [db |-> d, err |-> TRUE]
    ELSE LET file == files[path]
             decoded == deserialize_from(file)
         IN [db |-> [d EXCEPT !.accounts[1] = file.payload.accounts,
                              !.contracts = file.payload.contracts,
                              !.storage[1] = file.payload.storage,
                              !.block_hashes = file.payload.block_hashes],
             err |-> ~decoded.some]

\* CacheDB::load_forked_state: File::open and the decoding return early; the
\* four assignments come after both
load_forked_state(d, files, path, readable) ==
    IF ~readable THEN [db |-> d, err |-> TRUE]
    ELSE LET decoded == deserialize_from(files[path])
         IN IF ~decoded.some THEN [db |-> d, err |-> TRUE]
            ELSE [db |-> [d EXCEPT !.accounts[1] = decoded.val.accounts,
                                   !.contracts = decoded.val.contracts,
                                   !.storage[1] = decoded.val.storage,
                                   !.block_hashes = decoded.val.block_hashes],
                  err |-> FALSE]

\* Chain::_connect with a fork: the store is created, the cache file is
\* loaded when the path is a file, a failed load is logged and dropped
connect_fork(c, fork_number, rng_hash, files, path, readable) ==
    LET fresh == CacheDB_new("ForkDB", fork_number)
        load == IF HasKey(files, path)
                THEN load_forked_state(fresh, files, path, readable)
                ELSE [db |-> fresh, err |-> FALSE]
        d == set_code(load.db, TestAccount, "empty")
        env == BlockEnv(fork_number + 1, GenesisTimestamp + 1, c.block_gas_limit)
        c1 == [c EXCEPT !.connected = TRUE,
                        !.default_call_account = Some(TestAccount),
                        !.default_tx_account = Some(TestAccount),
                        !.default_estimate_account = Some(TestAccount),
                        !.default_access_list_account = Some(TestAccount),
                        !.evm = Some([db |-> d, block |-> env]),
                        !.forked_block = Some(fork_number),
                        !.blocks = << >>,
                        !.forked_blocks = EmptyMap,
                        !.blocks_start_index = fork_number + 1,
                        !.txs = << >>]
    IN [c |-> mine(c1, TRUE, rng_hash).c,
        loaded |-> HasKey(files, path) /\ ~load.err,
        load_err |-> load.err]

\* CacheDB::dump_forked_state seen from the store: std::mem::take empties
\* layer 0, the bytecode table and the block-hash cache
take_forked_state(d) ==
    [d EXCEPT !.accounts[1] = EmptyMap,
              !.contracts = EmptyMap,
              !.storage[1] = EmptyMap,
              !.block_hashes = EmptyMap]

\* Chain::_disconnect of a forked chain: the dump runs to its rename, or
\* fails at the open and leaves store and file alone
disconnect_fork(c, files, path, dump_ok) ==
    LET d == EvmDb(c)
        c1 == disconnect(c)
    IN IF ~c.forked_block.some \/ ~dump_ok THEN [c |-> c1, fs |-> files]
       ELSE [c |-> WithDb(c1, take_forked_state(d)),
             fs |-> Insert(Remove(files, path), path, Serialized(DiskCacheOf(d)))]

LoadFork == BlockHashWindow - 2
LoadAddrs == {RemoteAddr, "a2"}
LoadOp(before, files, hash, readable, r) ==
    [op |-> "connect_fork", before |-> before, files |-> files, hash |-> hash,
     readable |-> readable, loaded |-> r.loaded, load_err |-> r.load_err]

LoadInit ==
    /\ fs \in {EmptyMap, Insert(EmptyMap, TargetPath, Serialized(PreviousCache))}
    /\ dumpers = << >>
    /\ threads = NoThreads
    /\ chain = Chain_new
    /\ lastOp = NoOp
    /\ seqRun = NoRun
    /\ callMemo = EmptyMap
    /\ overflow_checks = FALSE
    /\ db = CacheDB_new("EmptyDB", 0)
    /\ snapObs = << >>
    /\ destroyed = {}

LoadFrame == UNCHANGED <<db, snapObs, destroyed, seqRun, callMemo, overflow_checks, dumpers, threads>>

LoadConnect ==
    \E h \in ChainHashes, readable \in BOOLEAN :
        LET r == connect_fork(chain, LoadFork, h, fs, TargetPath, readable)
        IN /\ ~chain.connected
           /\ chain' = r.c
           /\ lastOp' = LoadOp(chain, fs, h, readable, r)
           /\ UNCHANGED fs
           /\ LoadFrame

\* ChainInterface::get_balance on the pending block
LoadGetBalance ==
    \E a \in LoadAddrs :
        /\ chain.connected
        /\ chain' = WithDb(chain, basic(EvmDb(chain), a).db)
        /\ lastOp' = NoOp
        /\ UNCHANGED fs
        /\ LoadFrame

\* ChainInterface::get_storage_at on the pending block
LoadGetStorageAt ==
    \E a \in LoadAddrs :
        /\ chain.connected
        /\ chain' = WithDb(chain, storage(EvmDb(chain), a, "k1").db)
        /\ lastOp' = NoOp
        /\ UNCHANGED fs
        /\ LoadFrame

LoadDisconnect ==
    \E dump_ok \in BOOLEAN :
        LET r == disconnect_fork(chain, fs, TargetPath, dump_ok)
        IN /\ chain.connected
           /\ chain' = r.c
           /\ fs' = r.fs
           /\ lastOp' = NoOp
           /\ LoadFrame

\* the cache file is cut short behind the program's back
LoadTruncate ==
    \E n \in 0..(DiskCacheSections - 1) :
        /\ ~chain.connected
        /\ HasKey(fs, TargetPath)
        /\ fs[TargetPath].sections = DiskCacheSections
        /\ fs' = [fs EXCEPT ![TargetPath] = SerializedPrefix(@.payload, n)]
        /\ lastOp' = NoOp
        /\ UNCHANGED chain
        /\ LoadFrame

LoadNext ==
    \/ LoadConnect
    \/ LoadGetBalance
    \/ LoadGetStorageAt
    \/ LoadDisconnect
    \/ LoadTruncate

SpecLoad == LoadInit /\ [][LoadNext]_vars

\* the cache file of the last connect could not be loaded
LoadFailed ==
    /\ lastOp.op = "connect_fork"
    /\ HasKey(lastOp.files, TargetPath)
    /\ \/ ~lastOp.readable
       \/ lastOp.files[TargetPath].sections < DiskCacheSections
       \/ CacheEntries(lastOp.files[TargetPath].payload) > DecodeLimit

(***************************************************************************)
(* C24  A cache file that cannot be opened or decoded is not fatal: the    *)
(* load reports an error and returns the store as CacheDB::new made it     *)
(* (layer 0, bytecode table, block-hash cache), connect completes, and the *)
(* chain is the one a connect without any cache file gives, whose reads    *)
(* fetch from the fork source.                                             *)
(***************************************************************************)
C24_CorruptCacheIsCold ==
    LoadFailed =>
        /\ lastOp.load_err
        /\ chain.connected
        /\ chain.evm.some
        /\ load_forked_state(CacheDB_new("ForkDB", LoadFork), lastOp.files,
                             TargetPath, lastOp.readable)
               = [db |-> CacheDB_new("ForkDB", LoadFork), err |-> TRUE]
        /\ chain = connect(lastOp.before, Some(LoadFork), lastOp.hash)
        /\ storage(EvmDb(chain), RemoteAddr, "k1").val = ExtStorage("ForkDB", RemoteAddr, "k1")
        /\ HasKey(storage(EvmDb(chain), RemoteAddr, "k1").db.accounts[1], RemoteAddr)

\* a connect met a cache file cut short after its accounts section, which
\* held a fetched account
C24_Witness ==
    /\ LoadFailed
    /\ lastOp.readable
    /\ lastOp.files[TargetPath].sections \in 1..(DiskCacheSections - 1)
    /\ lastOp.files[TargetPath].payload.accounts # EmptyMap
    /\ chain.connected

(***************************************************************************)
(* The ids snapshot() hands out                                            *)
(***************************************************************************)

\* lastOp of the id specification: the id the operation returned (0 when it
\* returns none) and the ids snapshot() had returned before it
IdOp(name, id, issued) == [op |-> name, id |-> id, issued |-> issued]
IssuedNow == lastOp.issued \cup (IF lastOp.op = "snapshot" THEN {lastOp.id} ELSE {})

IdInit ==
    /\ db \in {CacheDB_new(ext, 0) : ext \in {"EmptyDB", "ForkDB"}}
    /\ lastOp = IdOp("other", 0, {})
    /\ snapObs = << >>
    /\ destroyed = {}
    /\ chain = Chain_new
    /\ seqRun = NoRun
    /\ callMemo = EmptyMap
    /\ overflow_checks = FALSE
    /\ CacheIdle

IdFrame == UNCHANGED <<snapObs, destroyed, chainVars, cacheVars>>

IdSnapshot ==
    /\ Len(db.snapshot_journal_indexes) < MaxSnapshots
    /\ db' = snapshot(db).db
    /\ lastOp' = IdOp("snapshot", snapshot(db).id, IssuedNow)
    /\ IdFrame

IdRevert ==
    \E id \in 1..Len(db.snapshot_journal_indexes) :
        /\ db' = revert_snapshot(db, id).db
        /\ lastOp' = IdOp("revert", 0, IssuedNow)
        /\ IdFrame

IdSetBalance ==
    \E a \in Addrs, v \in Balances :
        /\ CanWrite
        /\ db' = set_balance(db, a, v)
        /\ lastOp' = IdOp("other", 0, IssuedNow)
        /\ IdFrame

IdSetStorage ==
    \E a \in Addrs, k \in Slots, v \in Vals :
        /\ CanWrite
        /\ db' = set_storage(db, a, k, v)
        /\ lastOp' = IdOp("other", 0, IssuedNow)
        /\ IdFrame

IdNext ==
    \/ IdSnapshot
    \/ IdRevert
    \/ IdSetBalance
    \/ IdSetStorage

SpecId == IdInit /\ [][IdNext]_vars

(***************************************************************************)
(* C25  Every snapshot() returns an id strictly greater than every id an   *)
(* earlier snapshot() on the same store returned, reverts in between       *)
(* included.                                                               *)
(***************************************************************************)
C25_SnapshotIdsIncrease ==
    lastOp.op = "snapshot" => \A i \in lastOp.issued : i < lastOp.id

(***************************************************************************)
(* C26  In every reachable store, in every layer, a record marked          *)
(* NotExisting has zero balance, zero nonce and no code; the same holds in *)
(* the store a rollback to any journal position leaves for a historical    *)
(* query.                                                                  *)
(***************************************************************************)
NotExistingAreEmpty(d) ==
    \A i \in 1..Len(d.accounts) :
        \A a \in DOMAIN d.accounts[i] :
            d.accounts[i][a].account_state = "NotExisting"
                => d.accounts[i][a].info = AccountInfoDefault

C26_NotExistingHoldNothing ==
    /\ NotExistingAreEmpty(db)
    /\ \A j \in 0..Len(db.journal) : NotExistingAreEmpty(rollback(db, j).db)

\* a selfdestruct was committed above a snapshot: the top layer marks the
\* account NotExisting while a lower layer still holds its balance
C26_Witness ==
    \E i \in 1..Len(db.accounts) : \E j \in 1..Len(db.accounts) : \E a \in Addrs :
        /\ i < j
        /\ HasKey(db.accounts[i], a)
        /\ HasKey(db.accounts[j], a)
        /\ db.accounts[i][a].info.balance # 0
        /\ db.accounts[j][a].account_state = "NotExisting"

(***************************************************************************)
(* C27  No operation other than revert shortens the journal: across every  *)
(* step of the transactions, storage writes and historical queries (call,  *)
(* get_storage_at, get_code, which roll back and restore inside) the       *)
(* journal is at least as long when the operation returns as when it       *)
(* started.                                                                *)
(***************************************************************************)
C27_JournalMonotonic ==
    [][Len(EvmDb(chain).journal)' >= Len(EvmDb(chain).journal)]_vars

(***************************************************************************)
(* Snapshots and historical queries on one chain                           *)
(***************************************************************************)
ShapeSnapshot ==
    /\ Len(chain.snapshots) < MaxRevSnapshots
    /\ chain' = chain_snapshot(chain).c
    /\ lastOp' = NoOp
    /\ HashFrame

ShapeNext ==
    \/ QueryTransact
    \/ ShapeSnapshot
    \/ HashRevert
    \/ QueryGetCode

SpecShape == QueryInit /\ [][ShapeNext]_vars

NonDecreasing(s) == \A i \in 1..Len(s) : \A j \in i..Len(s) : s[i] <= s[j]

(***************************************************************************)
(* C28  Shape of the layer stack at every operation boundary: the account  *)
(* layers and the storage layers are equally deep, that depth is the       *)
(* number of live snapshots plus 2, and the recorded snapshot journal      *)
(* indexes are non-decreasing and none exceeds the journal length.         *)
(***************************************************************************)
C28_LayerStackShape ==
    LET d == EvmDb(chain)
    IN /\ Len(d.accounts) = Len(d.storage)
       /\ Len(d.accounts) = Len(chain.snapshots) + 2
       /\ NonDecreasing(d.snapshot_journal_indexes)
       /\ \A i \in 1..Len(d.snapshot_journal_indexes) :
              d.snapshot_journal_indexes[i] <= Len(d.journal)

(***************************************************************************)
(* Rollback against recorded history.  In this specification snapObs maps  *)
(* a journal length to what every account read and storage read returned   *)
(* when an operation last left the journal at that length.                 *)
(***************************************************************************)
Recorded(hist, d) == Insert(hist, Len(d.journal), Obs(d))

HistInit ==
    /\ db \in {CacheDB_new(ext, 0) : ext \in {"EmptyDB", "ForkDB"}}
    /\ lastOp = NoOp
    /\ snapObs = Recorded(EmptyMap, db)
    /\ destroyed = {}
    /\ chain = Chain_new
    /\ seqRun = NoRun
    /\ callMemo = EmptyMap
    /\ overflow_checks = FALSE
    /\ CacheIdle

HistFrame == UNCHANGED <<destroyed, chainVars, cacheVars>>

\* a direct write: what was written where, and the store before it
WriteOp(kind, address, index, before) ==
    [op |-> "write", kind |-> kind, address |-> address, index |-> index,
     before |-> before]

HistSetBalance ==
    \E a \in Addrs, v \in Balances :
        /\ CanWrite
        /\ db' = set_balance(db, a, v)
        /\ snapObs' = Recorded(snapObs, db')
        /\ lastOp' = WriteOp("balance", a, "-", db)
        /\ HistFrame

HistSetNonce ==
    \E a \in Addrs, v \in Nonces :
        /\ CanWrite
        /\ db' = set_nonce(db, a, v)
        /\ snapObs' = Recorded(snapObs, db')
        /\ lastOp' = WriteOp("nonce", a, "-", db)
        /\ HistFrame

HistSetCode ==
    \E a \in Addrs, v \in Codes :
        /\ CanWrite
        /\ db' = set_code(db, a, v)
        /\ snapObs' = Recorded(snapObs, db')
        /\ lastOp' = WriteOp("code", a, "-", db)
        /\ HistFrame

HistSetStorage ==
    \E a \in Addrs, k \in Slots, v \in Vals :
        /\ CanWrite
        /\ db' = set_storage(db, a, k, v)
        /\ snapObs' = Recorded(snapObs, db')
        /\ lastOp' = WriteOp("storage", a, k, db)
        /\ HistFrame

HistCommit ==
    \E diff \in Diffs :
        /\ CanWrite
        /\ db' = commit(db, diff)
        /\ snapObs' = Recorded(snapObs, db')
        /\ lastOp' = Op("commit")
        /\ HistFrame

HistSnapshot ==
    /\ Len(db.snapshot_journal_indexes) < MaxSnapshots
    /\ db' = snapshot(db).db
    /\ snapObs' = Recorded(snapObs, db')
    /\ lastOp' = Op("snapshot")
    /\ HistFrame

HistNext ==
    \/ HistSetBalance
    \/ HistSetNonce
    \/ HistSetCode
    \/ HistSetStorage
    \/ HistCommit
    \/ HistSnapshot

SpecHist == HistInit /\ [][HistNext]_vars

(***************************************************************************)
(* C29  Rollback reconstructs history: for every journal length j an       *)
(* operation has left behind, after rollback(j) every account read and     *)
(* every storage read returns what it returned when the journal had length *)
(* j, whatever writes, commits and snapshots were recorded after j.        *)
(***************************************************************************)
C29_RollbackReconstructs ==
    \A j \in DOMAIN snapObs : Obs(rollback(db, j).db) = snapObs[j]

\* the slots of address in a storage layer
SlotsOf(layer, address) == IF HasKey(layer, address) THEN layer[address] ELSE EmptyMap

(***************************************************************************)
(* C30  A direct write (set_balance, set_nonce, set_code, set_storage)     *)
(* changes no layer between layer 0 and the top, appends exactly one       *)
(* journal entry, that entry holds what the top layer held for the written *)
(* key before the call (nothing when the top layer held nothing), and      *)
(* inverting that one entry makes every read return what it returned       *)
(* before the call.                                                        *)
(***************************************************************************)
C30_WriteFrame ==
    lastOp.op = "write" =>
        LET before == lastOp.before
            top == Len(before.accounts)
            entry == Last(db.journal)
        IN /\ Len(db.accounts) = top
           /\ Len(db.storage) = top
           /\ \A i \in 2..(top - 1) :
                  /\ db.accounts[i] = before.accounts[i]
                  /\ db.storage[i] = before.storage[i]
           /\ Len(db.journal) = Len(before.journal) + 1
           /\ SubSeq(db.journal, 1, Len(before.journal)) = before.journal
           /\ entry.address = lastOp.address
           /\ IF lastOp.kind = "storage"
              THEN /\ entry.tag = "StorageChange"
                   /\ DOMAIN entry.changes = {lastOp.index}
                   /\ entry.changes[lastOp.index]
                          = Get(SlotsOf(before.storage[top], lastOp.address), lastOp.index)
              ELSE /\ entry.tag = "AccountChange"
                   /\ entry.account = Get(before.accounts[top], lastOp.address)
           /\ Obs(rollback(db, Len(before.journal)).db) = Obs(before)

(***************************************************************************)
(* Read precedence.  Layers are counted from 1 here: layer 1 is the code's *)
(* layer 0.                                                                *)
(***************************************************************************)
MaxOf(S) == IF S = {} THEN 0 ELSE CHOOSE i \in S : \A j \in S : j <= i

\* the topmost layer with a record of address, with a value for the slot,
\* with a NotExisting record of address; 0 when there is none
AccountHolder(d, address) ==
    MaxOf({i \in 1..Len(d.accounts) : HasKey(d.accounts[i], address)})
SlotHolder(d, address, index) ==
    MaxOf({i \in 1..Len(d.storage) :
              HasKey(d.storage[i], address) /\ HasKey(d.storage[i][address], index)})
NotExistingHolder(d, address) ==
    MaxOf({i \in 1..Len(d.accounts) :
              HasKey(d.accounts[i], address)
              /\ d.accounts[i][address].account_state = "NotExisting"})
LocallyCreated(d, address) ==
    \E i \in 1..Len(d.accounts) :
        HasKey(d.accounts[i], address) /\ d.accounts[i][address].locally_created

\* the store differs from d in layer 0 at most
SameAboveLayer0(d1, d) ==
    /\ Len(d1.accounts) = Len(d.accounts)
    /\ Len(d1.storage) = Len(d.storage)
    /\ \A i \in 2..Len(d.accounts) :
           d1.accounts[i] = d.accounts[i] /\ d1.storage[i] = d.storage[i]
    /\ d1.journal = d.journal
    /\ d1.contracts = d.contracts

\* read_account as the claim and the code agree on it
AccountReadPrecedence(d, a) ==
    LET r == basic(d, a)
        h == AccountHolder(d, a)
    IN IF h # 0
       THEN r.val = info(d.accounts[h][a]) /\ r.db = d
       ELSE /\ r.val = ExtBasic(d.db, a)
            /\ r.db.accounts[1] = Insert(d.accounts[1], a, DbAccountFrom(ExtBasic(d.db, a)))
            /\ r.db.storage = d.storage
            /\ SameAboveLayer0(r.db, d)

\* a storage miss: the value comes from the Backing Source and is stored in
\* layer 0, with the account record if layer 0 had none
StorageMiss(d, a, k) ==
    LET r == storage(d, a, k)
        value == IF HasKey(d.accounts[1], a) \/ ExtBasic(d.db, a).some
                 THEN ExtStorage(d.db, a, k) ELSE 0
    IN /\ r.val = value
       /\ HasKey(r.db.storage[1], a)
       /\ r.db.storage[1][a] = Insert(SlotsOf(d.storage[1], a), k, value)
       /\ \A b \in (DOMAIN d.storage[1]) \ {a} : r.db.storage[1][b] = d.storage[1][b]
       /\ r.db.accounts[1] = IF HasKey(d.accounts[1], a) THEN d.accounts[1]
                             ELSE Insert(d.accounts[1], a, DbAccountFrom(ExtBasic(d.db, a)))
       /\ SameAboveLayer0(r.db, d)

\* the statement as written: the topmost layer holding the slot wins, and
\* what is fetched goes to layer 0
C31_TopmostLayerWins ==
    \A a \in QueryAddrs :
        /\ AccountReadPrecedence(db, a)
        /\ \A k \in Slots :
               LET h == SlotHolder(db, a, k)
               IN IF h # 0
                  THEN storage(db, a, k) = [db |-> db, val |-> db.storage[h][a][k]]
                  ELSE IF StorageFetches(db, a, k) THEN StorageMiss(db, a, k)
                  ELSE storage(db, a, k).db = db

(***************************************************************************)
(* C31  Read precedence: read_account returns the record of the topmost    *)
(* layer holding the address; read_storage returns the value of the        *)
(* topmost layer holding the slot unless a layer at or above it holds a    *)
(* NotExisting record of the address, and then it returns 0; with no layer *)
(* deciding, an address some layer marks as locally created reads 0, and   *)
(* otherwise the Backing Source is consulted and its answer is stored in   *)
(* layer 0 and in no other layer.                                          *)
(***************************************************************************)
C31_ReadPrecedence ==
    \A a \in QueryAddrs :
        /\ AccountReadPrecedence(db, a)
        /\ \A k \in Slots :
               LET h == SlotHolder(db, a, k)
                   n == NotExistingHolder(db, a)
               IN IF n # 0 /\ n >= h
                  THEN storage(db, a, k) = [db |-> db, val |-> 0]
                  ELSE IF h # 0
                  THEN storage(db, a, k) = [db |-> db, val |-> db.storage[h][a][k]]
                  ELSE IF LocallyCreated(db, a)
                  THEN storage(db, a, k) = [db |-> db, val |-> 0]
                  ELSE StorageMiss(db, a, k)

\* a non-zero slot and the record of its account are held below the top
\* layer only, and another address is in no layer at all
C31_Witness ==
    \E a \in Addrs : \E k \in Slots :
        /\ SlotHolder(db, a, k) \in 1..(Len(db.storage) - 1)
        /\ AccountHolder(db, a) \in 2..(Len(db.accounts) - 1)
        /\ NotExistingHolder(db, a) = 0
        /\ storage(db, a, k).val # 0
        /\ AccountHolder(db, FreshAddr) = 0

(***************************************************************************)
(* What the Backing Source is asked.  lastOp counts, per address and per   *)
(* slot, the requests the store has sent so far (a count stops at          *)
(* MaxAsked).                                                              *)
(***************************************************************************)
MaxAsked == 2
Bump(n, asks) == IF asks /\ n < MaxAsked THEN n + 1 ELSE n

\* CacheDB::is_contract_forked: layer 0 is looked up, a miss is fetched and
\* not stored (&self)
is_contract_forked(d, address) ==
    LET b == IF HasKey(d.accounts[1], address) THEN d.accounts[1][address]
             ELSE forked_account_or_new(d, address)
    IN b.info.code # "empty"
IsContractForkedFetches(d, address) == ~HasKey(d.accounts[1], address)

\* CacheDB::storage asks for the account when layer 0 has no record of it,
\* and for the slot when layer 0 has one or the source just reported one
StorageAsksAccount(d, address, index) ==
    StorageFetches(d, address, index) /\ ~HasKey(d.accounts[1], address)
StorageAsksSlot(d, address, index) ==
    /\ StorageFetches(d, address, index)
    /\ HasKey(d.accounts[1], address) \/ ExtBasic(d.db, address).some

Asked(accounts, slots) == [op |-> "asked", accounts |-> accounts, slots |-> slots]
AskedAccount(a) == Asked([x \in QueryAddrs |-> Bump(lastOp.accounts[x], x = a)], lastOp.slots)
AskedNothing == Asked(lastOp.accounts, lastOp.slots)

FetchInit ==
    /\ db \in {CacheDB_new(ext, 0) : ext \in {"EmptyDB", "ForkDB"}}
    /\ lastOp = Asked([x \in QueryAddrs |-> 0], [x \in QueryAddrs \X Slots |-> 0])
    /\ snapObs = << >>
    /\ destroyed = {}
    /\ chain = Chain_new
    /\ seqRun = NoRun
    /\ callMemo = EmptyMap
    /\ overflow_checks = FALSE
    /\ CacheIdle

FetchFrame == UNCHANGED <<snapObs, destroyed, chainVars, cacheVars>>

FetchBasic ==
    \E a \in QueryAddrs :
        /\ db' = basic(db, a).db
        /\ lastOp' = IF BasicFetches(db, a) THEN AskedAccount(a) ELSE AskedNothing
        /\ FetchFrame

FetchStorage ==
    \E a \in QueryAddrs, k \in Slots :
        /\ db' = storage(db, a, k).db
        /\ lastOp' = Asked([x \in QueryAddrs |->
                               Bump(lastOp.accounts[x],
                                    x = a /\ StorageAsksAccount(db, a, k))],
                           [x \in QueryAddrs \X Slots |->
                               Bump(lastOp.slots[x],
                                    x = <<a, k>> /\ StorageAsksSlot(db, a, k))])
        /\ FetchFrame

FetchSetBalance ==
    \E a \in QueryAddrs, v \in Balances :
        /\ CanWrite
        /\ db' = set_balance(db, a, v)
        /\ lastOp' = IF BasicFetches(db, a) THEN AskedAccount(a) ELSE AskedNothing
        /\ FetchFrame

FetchCommit ==
    \E diff \in Diffs :
        /\ CanWrite
        /\ db' = commit(db, diff)
        /\ lastOp' = AskedNothing
        /\ FetchFrame

FetchSnapshot ==
    /\ Len(db.snapshot_journal_indexes) < MaxRevSnapshots
    /\ db' = snapshot(db).db
    /\ lastOp' = AskedNothing
    /\ FetchFrame

FetchRevert ==
    \E id \in 1..Len(db.snapshot_journal_indexes) :
        /\ db' = revert_snapshot(db, id).db
        /\ lastOp' = AskedNothing
        /\ FetchFrame

FetchRollbackRestore ==
    \E j \in 0..Len(db.journal) :
        /\ db' = RollbackRestore(db, j)
        /\ lastOp' = AskedNothing
        /\ FetchFrame

FetchIsContractForked ==
    \E a \in QueryAddrs :
        /\ db' = db
        /\ IsContractForkedFetches(db, a)
        /\ lastOp.accounts[a] < MaxAsked
        /\ lastOp' = AskedAccount(a)
        /\ FetchFrame

FetchNext ==
    \/ FetchBasic
    \/ FetchStorage
    \/ FetchSetBalance
    \/ FetchCommit
    \/ FetchSnapshot
    \/ FetchRevert
    \/ FetchRollbackRestore
    \/ FetchIsContractForked

SpecFetch == FetchInit /\ [][FetchNext]_vars

(***************************************************************************)
(* C32  Memoized fetches: over any sequence of store operations the        *)
(* Backing Source is asked for an account at most once and for a slot of   *)
(* an address at most once, reverts and rollback/restore pairs included.   *)
(***************************************************************************)
C32_FetchedAtMostOnce ==
    /\ \A a \in QueryAddrs : lastOp.accounts[a] <= 1
    /\ \A x \in QueryAddrs \X Slots : lastOp.slots[x] <= 1

(***************************************************************************)
(* Slots wiped by a selfdestruct.  In this specification destroyed holds   *)
(* the pairs <<address, slot>> whose non-zero value was there when a       *)
(* selfdestruct of the address was committed and that have not been        *)
(* written since.                                                          *)
(***************************************************************************)
\* a selfdestruct, and commits that (re-)create the account and write slot
\* k2, or no slot at all
WipeDiffs ==
    [address : Addrs, touched : {TRUE}, selfdestructed : {TRUE}, created : {FALSE},
     info : {AccountInfoDefault}, storage : {EmptyMap}]
    \cup
    [address : Addrs, touched : {TRUE}, selfdestructed : {FALSE}, created : BOOLEAN,
     info : {AccountInfo(1, 1, "c1")}, storage : {EmptyMap, [k \in {"k2"} |-> 1]}]

WipeInit ==
    /\ db \in {CacheDB_new(ext, 0) : ext \in {"EmptyDB", "ForkDB"}}
    /\ lastOp = NoOp
    /\ snapObs = << >>
    /\ destroyed = {}
    /\ chain = Chain_new
    /\ seqRun = NoRun
    /\ callMemo = EmptyMap
    /\ overflow_checks = FALSE
    /\ CacheIdle

WipeFrame == UNCHANGED <<snapObs, chainVars, cacheVars>>

WipeSetStorage ==
    \E a \in Addrs, k \in Slots, v \in {1} :
        /\ CanWrite
        /\ db' = set_storage(db, a, k, v)
        /\ destroyed' = destroyed \ {<<a, k>>}
        /\ lastOp' = NoOp
        /\ WipeFrame

WipeStorage ==
    \E a \in Addrs, k \in Slots :
        /\ db' = storage(db, a, k).db
        /\ UNCHANGED destroyed
        /\ lastOp' = NoOp
        /\ WipeFrame

WipeCommit ==
    \E diff \in WipeDiffs :
        /\ Len(db.journal) < MaxJournal + 2
        /\ db' = commit(db, diff)
        /\ destroyed' =
               IF diff.selfdestructed
               THEN destroyed \cup
                    {<<diff.address, k>> : k \in {x \in Slots : ReadStorage(db, diff.address, x) # 0}}
               ELSE destroyed \ {<<diff.address, k>> : k \in DOMAIN diff.storage}
        /\ lastOp' = [op |-> "commit", selfdestructed |-> diff.selfdestructed,
                      recreated |-> (~diff.selfdestructed
                                     /\ \E k \in Slots : <<diff.address, k>> \in destroyed),
                      layers |-> Len(db.accounts)]
        /\ WipeFrame

WipeSnapshot ==
    /\ Len(db.snapshot_journal_indexes) < MaxRevSnapshots
    /\ db' = snapshot(db).db
    /\ UNCHANGED destroyed
    /\ lastOp' = NoOp
    /\ WipeFrame

WipeNext ==
    \/ WipeSetStorage
    \/ WipeStorage
    \/ WipeCommit
    \/ WipeSnapshot

SpecWipe == WipeInit /\ [][WipeNext]_vars

(***************************************************************************)
(* C33  Selfdestruct wipes storage for good: a slot of A that held a value *)
(* when a selfdestruct of A was committed reads zero until it is written   *)
(* again, also after A is re-created by a later commit in the same layer   *)
(* or in a layer pushed by a later snapshot.                               *)
(***************************************************************************)
C33_WipedSlotsStayZero ==
    \A x \in destroyed : ReadStorage(db, x[1], x[2]) = 0


(***************************************************************************)
(* C34  Pending-gas invariant: while connected, the live block             *)
(* environment's gas_limit is the configured block gas limit minus the     *)
(* pending gas counter, and the pending gas counter is the sum of the gas  *)
(* used by the transactions that are pending - after any sequence of       *)
(* transact, mine, set_block_gas_limit, snapshot and revert.               *)
(***************************************************************************)
RECURSIVE PendingGasSum(_, _)
PendingGasSum(c, i) ==
    IF i = 0 THEN 0
    ELSE c.tx_objs[c.pending_txs[i]].gas_used + PendingGasSum(c, i - 1)

PendingGas(c) ==
    /\ EvmBlock(c).gas_limit = c.block_gas_limit - c.pending_gas_used
    /\ c.pending_gas_used = PendingGasSum(c, Len(c.pending_txs))

C34_PendingGasInvariant ==
    Connected => PendingGas(chain)

(***************************************************************************)
(* C35  Pending/mined bookkeeping: in every state a transaction is in the  *)
(* pending-transaction list exactly when its block back-reference is       *)
(* Pending, every pending transaction is in the ledger's transaction list, *)
(* and a transaction assigned to a mined block is never assigned to        *)
(* another block.                                                          *)
(***************************************************************************)
InSeq(s, x) == \E i \in 1..Len(s) : s[i] = x

PendingIffBackReference(c) ==
    \A t \in DOMAIN c.tx_objs :
        InSeq(c.pending_txs, t) <=> c.tx_objs[t].block.kind = "Pending"

PendingInLedger(c) ==
    \A i \in 1..Len(c.pending_txs) : InSeq(c.txs, c.pending_txs[i])

MinedStays(c, c2) ==
    \A t \in DOMAIN c.tx_objs \cap DOMAIN c2.tx_objs :
        c.tx_objs[t].block.kind = "Mined" => c2.tx_objs[t].block = c.tx_objs[t].block

C35_PendingMinedBookkeeping ==
    [][/\ PendingIffBackReference(chain')
       /\ PendingInLedger(chain')
       /\ MinedStays(chain, chain')]_vars

(***************************************************************************)
(* C36  Orchestrator and store snapshots stay in lockstep: in every state  *)
(* the chain holds as many environment snapshots as the store has live     *)
(* snapshots, and a revert puts back the block environment captured by the *)
(* snapshot() call that returned its id - after any sequence of snapshot,  *)
(* revert, disconnect and connect.                                         *)
(***************************************************************************)
Lockstep(c) ==
    c.evm.some => Len(c.snapshots) = Len(EvmDb(c).snapshot_journal_indexes)

\* a step that pops environment snapshots is a revert to the lowest popped
RevertedTo(c, c2) == Len(c2.snapshots) + 1

C36_SnapshotsInLockstep ==
    [][/\ Lockstep(chain')
       /\ Len(chain'.snapshots) < Len(chain.snapshots) =>
              EvmBlock(chain') = chain.snapshots[RevertedTo(chain, chain')]]_vars

(***************************************************************************)
(* Transactions, direct writes, mining, snapshots and reverts on one       *)
(* connection.                                                             *)
(***************************************************************************)
PosSnapshot ==
    /\ Len(chain.snapshots) < MaxRevSnapshots
    /\ chain' = chain_snapshot(chain).c
    /\ lastOp' = Op("snapshot")
    /\ HashFrame

PosRevert ==
    \E id \in 1..Len(chain.snapshots) :
        /\ chain' = chain_revert(chain, id)
        /\ lastOp' = Op("revert")
        /\ HashFrame

PosNext ==
    \/ QueryTransact
    \/ QuerySetStorageAt
    \/ HashMine
    \/ PosSnapshot
    \/ PosRevert

SpecPos == QueryInit /\ [][PosNext]_vars

(***************************************************************************)
(* C37  Recorded journal positions stay valid: the journal index stored in *)
(* every retained mined block and in every transaction retained in the     *)
(* ledger is at most the current journal length - after any sequence of    *)
(* transact, mine, direct writes, snapshot and revert.                     *)
(***************************************************************************)
JournalPositionsValid(c) ==
    /\ \A i \in 1..Len(c.blocks) :
           c.blocks[i].journal_index.some =>
               c.blocks[i].journal_index.val <= Len(EvmDb(c).journal)
    /\ \A i \in 1..Len(c.txs) :
           c.tx_objs[c.txs[i]].journal_index <= Len(EvmDb(c).journal)

C37_JournalPositionsValid == JournalPositionsValid(chain)

C37_Witness ==
    /\ lastOp = Op("revert")
    /\ chain.txs # << >>
    /\ Len(EvmDb(chain).journal) > 0
    /\ \E i \in 1..Len(chain.blocks) :
           chain.blocks[i].journal_index = Some(Len(EvmDb(chain).journal))

(***************************************************************************)
(* Transactions the VM rejects: the gas limit asked for is above what is   *)
(* left of the pending block, or a fetch from the Backing Source fails.    *)
(* oks tells, read by read, whether a fetch of that read would succeed.    *)
(***************************************************************************)
ReadOks == [1..3 -> BOOLEAN]

\* inspect_replay over a source that can fail at any one fetch
try_ExecReadsEach(d, address, oks) ==
    LET r1 == try_basic(d, address, oks[1])
        r2 == try_storage(r1.db, address, "k1", oks[2])
        r3 == try_storage(r2.db, address, "k2", oks[3])
    IN IF r1.err THEN [db |-> r1.db, err |-> TRUE]
       ELSE IF r2.err THEN [db |-> r2.db, err |-> TRUE]
       ELSE [db |-> r3.db, err |-> r3.err]

\* a transact that commits, charges and records before it returns the error
try_transact_ignores_error(c, exec, gas_limit, oks, rng_hash) ==
    LET reads == try_ExecReadsEach(EvmDb(c), exec.diff.address, oks)
    IN IF gas_limit > EvmBlock(c).gas_limit \/ reads.err
       THEN Err(transact(c, exec, rng_hash).c, "RuntimeError")
       ELSE Ok(transact(c, exec, rng_hash).c)

\* Chain::transact with the `?` after inspect_replay_commit: validation of
\* the gas limit comes before the first read, the commit after the last
try_transact(c, exec, gas_limit, oks, rng_hash) ==
    LET reads == try_ExecReadsEach(EvmDb(c), exec.diff.address, oks)
    IN IF gas_limit > EvmBlock(c).gas_limit
       THEN Err(c, "RuntimeError")
       ELSE IF reads.err
       THEN Err(WithDb(c, reads.db), "RuntimeError")
       ELSE Ok(transact(c, exec, rng_hash).c)

RejGasLimits == GasUsedSet \cup {BlockGasLimitDefault}

RejSetAutomine ==
    \E b \in BOOLEAN :
        /\ b # chain.automine
        /\ chain' = [chain EXCEPT !.automine = b]
        /\ lastOp' = NoOp
        /\ HashFrame

RejTransact ==
    \E exec \in Execs, gas_limit \in RejGasLimits, oks \in ReadOks, h \in ChainHashes :
        LET r == try_transact(chain, exec, gas_limit, oks, h)
        IN /\ CanTransact
           /\ chain.automine => CanMine
           /\ exec.gas_used <= gas_limit
           /\ chain' = r.c
           /\ lastOp' = [op |-> "transact", err |-> r.err, before |-> chain,
                         gas_limit |-> gas_limit, oks |-> oks]
           /\ HashFrame

RejNext ==
    \/ RejSetAutomine
    \/ RejTransact

SpecReject == QueryInit /\ [][RejNext]_vars

Rejected == lastOp.op = "transact" /\ lastOp.err # "none"

(***************************************************************************)
(* C38  A transact the VM rejects before execution (a gas limit above the  *)
(* pending block's remaining capacity, or a store / Backing Source error)  *)
(* returns an error and leaves the store, the journal, the ledger, the     *)
(* pending-transaction list, the pending gas counter, last_block_number    *)
(* and the live block environment unchanged; no block is mined.            *)
(***************************************************************************)
C38_RejectedTransactChangesNothing ==
    Rejected => chain = lastOp.before

\* every entry of layer 0 of d is in layer 0 of d1, unchanged
CacheGrew(d1, d) ==
    /\ \A a \in DOMAIN d.accounts[1] :
           HasKey(d1.accounts[1], a) /\ d1.accounts[1][a] = d.accounts[1][a]
    /\ \A a \in DOMAIN d.storage[1] :
           /\ HasKey(d1.storage[1], a)
           /\ \A k \in DOMAIN d.storage[1][a] :
                  HasKey(d1.storage[1][a], k) /\ d1.storage[1][a][k] = d.storage[1][a][k]

\* the store with the layer-0 cache of another
WithCacheOf(d1, d) ==
    [d1 EXCEPT !.accounts[1] = d.accounts[1], !.storage[1] = d.storage[1]]

(***************************************************************************)
(* C38 (amended)  A rejected transact returns an error and leaves the      *)
(* journal, every layer above layer 0, the ledger, the pending-transaction *)
(* list, the pending gas counter, last_block_number and the live block     *)
(* environment unchanged, mines no block, and every account and slot reads *)
(* as before; layer 0 keeps its entries and may have gained the values     *)
(* fetched before the failing fetch.                                       *)
(***************************************************************************)
C38_RejectedTransactKeepsState ==
    Rejected =>
        /\ WithDb(chain, WithCacheOf(EvmDb(chain), EvmDb(lastOp.before))) = lastOp.before
        /\ CacheGrew(EvmDb(chain), EvmDb(lastOp.before))
        /\ \A a \in QueryAddrs :
               /\ ReadAccount(EvmDb(chain), a) = ReadAccount(EvmDb(lastOp.before), a)
               /\ \A k \in Slots :
                      ReadStorage(EvmDb(chain), a, k) =
                      ReadStorage(EvmDb(lastOp.before), a, k)

C38_Witness ==
    /\ Rejected
    /\ lastOp.gas_limit <= EvmBlock(lastOp.before).gas_limit
    /\ EvmDb(chain) # EvmDb(lastOp.before)
    /\ Len(EvmDb(chain).journal) > 0
    /\ chain.blocks # << >>

(***************************************************************************)
(* Two threads of the host calling into one chain.  An operation borrows   *)
(* the chain object under the host's global lock and keeps the borrow      *)
(* while its closure runs with the lock released; the steps of a closure   *)
(* (rollback, read, restore) interleave with whatever the other thread     *)
(* attempts.                                                               *)
(***************************************************************************)
\* a borrow that is given back before the closure runs
borrow_mut_released(th, t) == [ok |-> TRUE, th |-> th]

\* slf.borrow_mut(): refused while the object is borrowed
borrow_mut(th, t) ==
    IF th.borrow.some
    THEN [ok |-> FALSE, th |-> th]
    ELSE [ok |-> TRUE, th |-> [th EXCEPT !.borrow = Some(t)]]

\* the VM a thread's closure works on: the one with_evm_with_inspector took
\* out of the chain, or the one with_evm reaches through the borrow
HeldEvm(t) ==
    IF threads.of[t].kind = "call" THEN threads.of[t].evm.val ELSE chain.evm.val
\* the closure of thread t has a VM to work on
HoldsEvm(t) == threads.of[t].kind = "call" \/ chain.evm.some

BorrowFrame == UNCHANGED <<db, snapObs, destroyed, overflow_checks, seqRun, callMemo, fs, dumpers>>

Step(t) == [op |-> "step", thread |-> t]

\* one step of the closure of thread t, leaving the VM as new_evm
ClosureStep(t, pc, new_evm, items, block_env) ==
    /\ threads' = [threads EXCEPT
                      !.of[t] = [@ EXCEPT !.pc = pc, !.items = items,
                                               !.block_env = block_env,
                                               !.evm = IF @.some THEN Some(new_evm) ELSE @]]
    /\ chain' = IF threads.of[t].kind = "call" THEN chain
                ELSE [chain EXCEPT !.evm = Some(new_evm)]
    /\ lastOp' = Step(t)
    /\ BorrowFrame

\* Chain::call against a mined block, up to the release of the global lock:
\* borrow, look the block up, take the VM out of the chain
CoCallBegin ==
    \E t \in ThreadIds, a \in Addrs :
        \E number \in (IF chain.evm.some THEN LocalBlocks ELSE {}) :
            LET b == borrow_mut(threads, t)
                block == get_block(chain, number)
            IN /\ threads.of[t].pc = "idle"
               /\ b.ok
               /\ threads' = [b.th EXCEPT
                                 !.of[t] = [ThreadIdle EXCEPT
                                        !.pc = "taken", !.kind = "call",
                                        !.evm = chain.evm,
                                        !.journal_index = block.journal_index.val,
                                        !.block_env = block.block_env,
                                        !.address = a]]
               /\ chain' = [chain EXCEPT !.evm = None_]
               /\ lastOp' = Step(t)
               /\ BorrowFrame

\* ChainInterface::get_storage_at against a mined block, up to the release
\* of the global lock: borrow; the VM stays in the chain
CoGetStorageAtBegin ==
    \E t \in ThreadIds, a \in Addrs :
        \E number \in (IF chain.evm.some THEN LocalBlocks ELSE {}) :
            LET b == borrow_mut(threads, t)
                block == get_block(chain, number)
            IN /\ threads.of[t].pc = "idle"
               /\ b.ok
               /\ threads' = [b.th EXCEPT
                                 !.of[t] = [ThreadIdle EXCEPT
                                        !.pc = "taken", !.kind = "get_storage_at",
                                        !.journal_index = block.journal_index.val,
                                        !.address = a]]
               /\ lastOp' = Step(t)
               /\ UNCHANGED chain
               /\ BorrowFrame

\* an operation that finds the chain borrowed, or without its VM, fails
CoRefused ==
    \E t \in ThreadIds :
        /\ threads.of[t].pc = "idle"
        /\ ~borrow_mut(threads, t).ok \/ ~chain.evm.some
        /\ lastOp' = [op |-> "refused", thread |-> t]
        /\ UNCHANGED <<chain, threads>>
        /\ BorrowFrame

CoRollback ==
    \E t \in ThreadIds :
        LET evm == HeldEvm(t)
            rb == rollback(evm.db, threads.of[t].journal_index)
        IN /\ threads.of[t].pc = "taken"
           /\ HoldsEvm(t)
           /\ IF threads.of[t].kind = "call"
              THEN ClosureStep(t, "rolled_back",
                               [db |-> rb.db, block |-> threads.of[t].block_env],
                               rb.items, evm.block)
              ELSE ClosureStep(t, "rolled_back", [evm EXCEPT !.db = rb.db],
                               rb.items, threads.of[t].block_env)

CoRead ==
    \E t \in ThreadIds :
        LET evm == HeldEvm(t)
            d == IF threads.of[t].kind = "call"
                 THEN ExecReads(evm.db, threads.of[t].address)
                 ELSE storage(evm.db, threads.of[t].address, "k1").db
        IN /\ threads.of[t].pc = "rolled_back"
           /\ HoldsEvm(t)
           /\ ClosureStep(t, "read", [evm EXCEPT !.db = d],
                          threads.of[t].items, threads.of[t].block_env)

CoRestore ==
    \E t \in ThreadIds :
        LET evm == HeldEvm(t)
            d == restore_rollback(evm.db, threads.of[t].items)
        IN /\ threads.of[t].pc = "read"
           /\ HoldsEvm(t)
           /\ IF threads.of[t].kind = "call"
              THEN ClosureStep(t, "restored",
                               [db |-> d, block |-> threads.of[t].block_env],
                               << >>, evm.block)
              ELSE ClosureStep(t, "restored", [evm EXCEPT !.db = d],
                               << >>, threads.of[t].block_env)

\* the global lock is taken again: the VM goes back into the chain and the
\* borrow ends
CoEnd ==
    \E t \in ThreadIds :
        /\ threads.of[t].pc = "restored"
        /\ chain' = IF threads.of[t].kind = "call"
                    THEN [chain EXCEPT !.evm = threads.of[t].evm]
                    ELSE chain
        /\ threads' = [threads EXCEPT !.borrow = None_, !.of[t] = ThreadIdle]
        /\ lastOp' = Step(t)
        /\ BorrowFrame

\* a transaction against the pending block; it holds the borrow from its
\* first line to its last
CoTransact ==
    \E t \in ThreadIds, exec \in Execs, h \in ChainHashes :
        /\ threads.of[t].pc = "idle"
        /\ borrow_mut(threads, t).ok
        /\ chain.evm.some
        /\ CanTransact
        /\ CanMine
        /\ chain' = transact(chain, exec, h).c
        /\ lastOp' = Step(t)
        /\ UNCHANGED threads
        /\ BorrowFrame

BorrowNext ==
    \/ CoCallBegin
    \/ CoGetStorageAtBegin
    \/ CoRefused
    \/ CoRollback
    \/ CoRead
    \/ CoRestore
    \/ CoEnd
    \/ CoTransact

SpecBorrow == QueryInit /\ [][BorrowNext]_vars

\* thread t is between rollback and restore
Rewinding(th, t) == th.of[t].pc \in {"rolled_back", "read"}

(***************************************************************************)
(* C39  No operation observes a rewound store: while one operation holds   *)
(* the store rolled back, between rollback and restore with the global     *)
(* lock released, every step another thread takes on the chain is a        *)
(* refused attempt that reads and writes nothing; and once no operation is *)
(* in progress the chain has its VM, with the store not rewound.           *)
(***************************************************************************)
C39_NoOperationObservesRewound ==
    [][/\ \A t \in ThreadIds :
              Rewinding(threads, t) =>
                  \/ threads'.of[t] # threads.of[t]
                  \/ /\ lastOp'.op = "refused"
                     /\ chain' = chain
                     /\ threads' = threads
       /\ (\A t \in ThreadIds : threads'.of[t].pc = "idle") =>
              /\ chain'.evm.some
              /\ JournalPositionsValid(chain')]_vars

C39_Witness ==
    /\ lastOp.op = "refused"
    /\ \E t \in ThreadIds :
           /\ Rewinding(threads, t)
           /\ lastOp.thread # t
           /\ threads.of[t].items # << >>
           /\ Len(HeldEvm(t).db.journal) = threads.of[t].journal_index

(***************************************************************************)
(* C40  Layer 0 is a pure cache: no write, commit, snapshot, revert,       *)
(* rollback or restore inserts, changes or removes an entry of layer 0     *)
(* other than by storing a value just fetched from the Backing Source, and *)
(* every inverted journal entry is applied to a layer with index >= 1.     *)
(***************************************************************************)
\* what layer 0 of d2 holds and layer 0 of d does not is what the Backing
\* Source of d answers
OnlyFetched(d2, d) ==
    /\ \A a \in DOMAIN d2.accounts[1] :
           HasKey(d.accounts[1], a) \/ d2.accounts[1][a] = forked_account_or_new(d, a)
    /\ \A a \in DOMAIN d2.storage[1] :
           \A k \in DOMAIN d2.storage[1][a] :
               \/ HasKey(d.storage[1], a) /\ HasKey(d.storage[1][a], k)
               \/ d2.storage[1][a][k] = ExtStorage(d.db, a, k)
               \/ ~ExtBasic(d.db, a).some /\ d2.storage[1][a][k] = 0

SameLayer0(d2, d) ==
    /\ d2.accounts[1] = d.accounts[1]
    /\ d2.storage[1] = d.storage[1]

\* rollback to any index, and the restore after it, leave layer 0 alone and
\* invert every entry in a layer above it
RollbackAboveLayer0(d) ==
    /\ \A i \in 0..(Len(d.journal) - 1) :
           JournalLayer(d, i) >= 1 /\ JournalLayer(d, i) + 1 <= Len(d.accounts)
    /\ \A j \in 0..Len(d.journal) :
           /\ SameLayer0(rollback(d, j).db, d)
           /\ SameLayer0(RollbackRestore(d, j), d)

C40_LayerZeroPureCache ==
    [][/\ CacheGrew(db', db)
       /\ OnlyFetched(db', db)
       /\ RollbackAboveLayer0(db')]_vars

C40_Witness ==
    /\ db.accounts[1] # EmptyMap
    /\ db.storage[1] # EmptyMap
    /\ Len(db.accounts) > 2
    /\ Len(db.journal) > 1
    /\ rollback(db, 0).db.accounts # db.accounts
    /\ \E a \in DOMAIN db.accounts[1] :
           ReadAccount(db, a) # info(db.accounts[1][a])

====
